---- MODULE Spec2Model ----
(***************************************************************************)
(* Stream-Gate backend (src-tauri): the DNS scan engine of                 *)
(* services/dns_service.rs and the connection orchestrator of              *)
(* services/connection.rs with the process supervisor                      *)
(* (services/process_manager.rs) and the proxy listeners                   *)
(* (services/proxy_service.rs) it drives.                                  *)
(*                                                                         *)
(* Tasks spawned with tokio::spawn run on a multi-threaded runtime: every  *)
(* lock acquisition, atomic access and await point of a task is a step of  *)
(* its own that the steps of the other tasks may interleave with.          *)
(***************************************************************************)
EXTENDS Integers, Sequences, FiniteSets, TLC

(***************************************************************************)
(* Bounds of the model.                                                    *)
(***************************************************************************)
\* scans started per behaviour
MaxScans == 2
\* servers handed to start_scan per behaviour, over all its calls
MaxServers == 2
\* cap of scan_id (every start_scan and stop_scan adds one)
MaxScanId == 3

\* size of the permit pool each scan creates: Semaphore::new(50) in the
\* source, scaled here to one less than the servers of a behaviour, so that
\* a server list can exhaust the pool
SCAN_PERMITS == MaxServers - 1

ScanSlots == 1..MaxScans
ServerIdx == 1..MaxServers

VARIABLES
    \* ---- DnsService ----
    is_scanning,    \* DnsService.is_scanning
    scan_id,        \* DnsService.scan_id
    ctl,            \* position of the caller of start_scan / stop_scan
    ctlTotal,       \* servers.len() of the start_scan call in progress
    scanRet,        \* outcome of the last start_scan call
    nScans,         \* number of coordinator tasks spawned so far
    scanCid,        \* per scan: current_scan_id captured by its tasks
    total,          \* per scan: servers.len()
    coord,          \* per scan: position of the coordinator task
    spawned,        \* per scan: number of worker tasks spawned
    wpc,            \* per scan and server: position of the worker task
    permits,        \* per scan: free permits of its semaphore
    completed,      \* per scan: the shared completed counter
    events,         \* events handed to app_handle.emit
    stopped         \* scans that were current when a stop_scan returned

scanVars == <<is_scanning, scan_id, ctl, ctlTotal, scanRet, nScans, scanCid,
              total, coord, spawned, wpc, permits, completed, events, stopped>>

\* ---- ConnectionService, ProcessManager, ProxyService ----
VARIABLES
    state,          \* ConnectionService.state (ConnectionState)
    pc,             \* per caller: position inside start() / stop()
    cfg,            \* per caller: the ConnectionConfig of its start()
    ret,            \* per caller: ConnectionResult.success of its last call
    from,           \* per caller: the status its last call was entered in
    myChild,        \* per caller: the child its ProcessManager::start spawned
    child,          \* ProcessManager.child (0 = None)
    procs,          \* the spawned tunnel processes
    nStarts,        \* start() calls entered so far
    nStops,         \* stop() calls entered so far
    running,        \* http_proxy_running / socks_forward_running
    abort,          \* http_proxy_abort / socks_forward_abort (0 = None)
    loops,          \* per listener: the spawned accept-loop tasks
    sig,            \* per listener and task: its oneshot receiver has resolved
    nLoops,         \* per listener: accept-loop tasks spawned so far
    monitors,       \* traffic-monitor tasks spawned so far
    sysProxy,       \* the OS proxy currently points at the HTTP proxy
    hist,           \* the start_service / stop_service calls entered so far, in order
    extFail,        \* an external step has failed (DNS, spawn, child exit, foreign port owner)
    wrote,          \* per caller: the status it wrote and has not yet emitted
    seen,           \* per caller: details.status as read by emit_status_update
    lastEvent,      \* the status-update event emitted last
    cleaning,       \* the caller that runs AppState::cleanup (0 = none)
    killedPorts     \* the ports handed to kill_ports by AppState::cleanup

\* emit_status_update in progress, and its outcome
emitVars == <<wrote, seen, lastEvent>>

\* AppState::cleanup
exitVars == <<cleaning, killedPorts>>

connVars == <<state, pc, cfg, ret, from, myChild, child, procs, nStarts,
              nStops, running, abort, loops, sig, nLoops, monitors, sysProxy,
              hist, extFail, emitVars, exitVars>>

\* ---- the connections served by the listeners, and the traffic counters ----
VARIABLES
    conn,           \* the connection accepted last: its listener and position
    uplink,         \* TrafficCounter.uplink
    downlink,       \* TrafficCounter.downlink
    prev_uplink,    \* TrafficCounter.prev_uplink
    prev_downlink,  \* TrafficCounter.prev_downlink
    mon,            \* per traffic-monitor task: its position and locals
    sent,           \* the TrafficUpdate sent last, the counters its tick read
                    \* and the sums of all updates sent so far
    tunnel          \* per direction of a CONNECT tunnel: its copy loop

trafVars == <<uplink, downlink, prev_uplink, prev_downlink, mon, sent,
              tunnel>>

\* ---- the settings, the OS proxy, the supervisor's output and plain calls ----
VARIABLES
    settings,       \* SettingsService.settings (the in-memory Settings)
    disk,           \* the Settings document in settings.json
    os,             \* the proxy settings of the operating system
    call,           \* the call made last: its operation, input and result
    sup             \* what the readers of the child's output have done

appVars == <<settings, disk, os, call, sup>>

netVars == <<conn, trafVars, appVars>>

vars == <<scanVars, connVars, netVars>>

(***************************************************************************)
(* DnsService::new                                                         *)
(***************************************************************************)
ScanInit ==
    /\ is_scanning = FALSE
    /\ scan_id = 0
    /\ ctl = "idle"
    /\ ctlTotal = 0
    /\ scanRet = "none"
    /\ nScans = 0
    /\ scanCid = [k \in ScanSlots |-> 0]
    /\ total = [k \in ScanSlots |-> 0]
    /\ coord = [k \in ScanSlots |-> "none"]
    /\ spawned = [k \in ScanSlots |-> 0]
    /\ wpc = [k \in ScanSlots |-> [i \in ServerIdx |-> "none"]]
    /\ permits = [k \in ScanSlots |-> SCAN_PERMITS]
    /\ completed = [k \in ScanSlots |-> 0]
    /\ events = {}
    /\ stopped = {}

RECURSIVE ServersUpTo(_)
\* servers of the scans started so far
ServersUpTo(k) == IF k = 0 THEN 0 ELSE total[k] + ServersUpTo(k - 1)

Ev(name, k, i) == [ev |-> name, scan |-> k, srv |-> i]

WorkerFinal == {"done", "dropped", "skipped"}

(***************************************************************************)
(* start_scan, first critical section: reject when a scan is in progress,  *)
(* else raise the flag.                                                    *)
(***************************************************************************)
StartScanEnter(n) ==
    /\ ctl = "idle"
    /\ nScans < MaxScans
    /\ scan_id < MaxScanId
    /\ n <= MaxServers - ServersUpTo(nScans)
    /\ IF is_scanning
         THEN /\ scanRet' = "err"
              /\ UNCHANGED <<is_scanning, ctl, ctlTotal>>
         ELSE /\ is_scanning' = TRUE
              /\ ctl' = "start_spawn"
              /\ ctlTotal' = n
              /\ UNCHANGED scanRet
    /\ UNCHANGED <<scan_id, nScans, scanCid, total, coord, spawned, wpc,
                   permits, completed, events, stopped>>
    /\ UNCHANGED <<connVars, netVars>>

(***************************************************************************)
(* start_scan, second critical section: increment scan_id, capture it and  *)
(* spawn the coordinator task.                                             *)
(***************************************************************************)
\* a start_scan that restarts the numbering
StartScanNewId_Reset(id) == 1

\* start_scan: *id += 1
StartScanNewId(id) == id + 1

StartScanSpawn ==
    /\ ctl = "start_spawn"
    /\ LET k == nScans + 1
           id == StartScanNewId(scan_id)
       IN /\ scan_id' = id
          /\ nScans' = k
          /\ scanCid' = [scanCid EXCEPT ![k] = id]
          /\ total' = [total EXCEPT ![k] = ctlTotal]
          /\ coord' = [coord EXCEPT ![k] = "spawn"]
    /\ ctl' = "idle"
    /\ scanRet' = "ok"
    /\ UNCHANGED <<is_scanning, ctlTotal, spawned, wpc, permits, completed,
                   events, stopped>>
    /\ UNCHANGED <<connVars, netVars>>

(***************************************************************************)
(* stop_scan: clear the flag, then invalidate the scan id.                 *)
(***************************************************************************)
StopScanClear ==
    /\ ctl = "idle"
    /\ scan_id < MaxScanId
    /\ is_scanning' = FALSE
    /\ ctl' = "stop_bump"
    /\ UNCHANGED <<scan_id, ctlTotal, scanRet, nScans, scanCid, total, coord,
                   spawned, wpc, permits, completed, events, stopped>>
    /\ UNCHANGED <<connVars, netVars>>

\* a stop_scan that only clears the flag
StopScanNewId_Same(id) == id

\* stop_scan: *id += 1
StopScanNewId(id) == id + 1

StopScanBump ==
    /\ ctl = "stop_bump"
    /\ scan_id' = StopScanNewId(scan_id)
    /\ stopped' = stopped \cup {k \in 1..nScans : scanCid[k] = scan_id}
    /\ ctl' = "idle"
    /\ UNCHANGED <<is_scanning, ctlTotal, scanRet, nScans, scanCid, total,
                   coord, spawned, wpc, permits, completed, events>>
    /\ UNCHANGED <<connVars, netVars>>

(***************************************************************************)
(* Coordinator task: one iteration of `for server in servers`.             *)
(***************************************************************************)
CoordSpawn(k) ==
    /\ coord[k] = "spawn"
    /\ IF spawned[k] < total[k] /\ is_scanning /\ scan_id = scanCid[k]
         THEN /\ spawned' = [spawned EXCEPT ![k] = @ + 1]
              /\ wpc' = [wpc EXCEPT ![k][spawned[k] + 1] = "acquire"]
              /\ UNCHANGED coord
         ELSE /\ coord' = [coord EXCEPT ![k] = "join"]
              /\ UNCHANGED <<spawned, wpc>>
    /\ UNCHANGED <<is_scanning, scan_id, ctl, ctlTotal, scanRet, nScans,
                   scanCid, total, permits, completed, events, stopped>>
    /\ UNCHANGED <<connVars, netVars>>

\* what the coordinator writes to is_scanning after the join
CoordFlagAfterJoin(k, cur) == FALSE

(***************************************************************************)
(* Coordinator task: all spawned tasks awaited, clear is_scanning.         *)
(***************************************************************************)
CoordJoin(k) ==
    /\ coord[k] = "join"
    /\ \A i \in 1..spawned[k] : wpc[k][i] \in WorkerFinal
    /\ is_scanning' = CoordFlagAfterJoin(k, is_scanning)
    /\ coord' = [coord EXCEPT ![k] = "complete"]
    /\ UNCHANGED <<scan_id, ctl, ctlTotal, scanRet, nScans, scanCid, total,
                   spawned, wpc, permits, completed, events, stopped>>
    /\ UNCHANGED <<connVars, netVars>>

\* the guard of an emission site: the carried id is still the current one
IdCurrent_Always(k) == TRUE

IdCurrent(k) == scan_id = scanCid[k]

(***************************************************************************)
(* Coordinator task: emit dns-scan-complete if still the active scan.      *)
(***************************************************************************)
CoordComplete(k) ==
    /\ coord[k] = "complete"
    /\ IF IdCurrent(k)
         THEN /\ events' = events \cup {Ev("dns-scan-complete", k, 0)}
              /\ coord' = [coord EXCEPT ![k] = "completed"]
         ELSE /\ coord' = [coord EXCEPT ![k] = "silent"]
              /\ UNCHANGED events
    /\ UNCHANGED <<is_scanning, scan_id, ctl, ctlTotal, scanRet, nScans,
                   scanCid, total, spawned, wpc, permits, completed, stopped>>
    /\ UNCHANGED <<connVars, netVars>>

(***************************************************************************)
(* Worker task.                                                            *)
(***************************************************************************)
WorkerAcquire(k, i) ==
    /\ wpc[k][i] = "acquire"
    /\ permits[k] > 0
    /\ permits' = [permits EXCEPT ![k] = @ - 1]
    /\ wpc' = [wpc EXCEPT ![k][i] = "chk_id"]
    /\ UNCHANGED <<is_scanning, scan_id, ctl, ctlTotal, scanRet, nScans,
                   scanCid, total, coord, spawned, completed, events, stopped>>
    /\ UNCHANGED <<connVars, netVars>>

WorkerCheckId(k, i) ==
    /\ wpc[k][i] = "chk_id"
    /\ IF scan_id # scanCid[k]
         THEN /\ wpc' = [wpc EXCEPT ![k][i] = "skipped"]
              /\ permits' = [permits EXCEPT ![k] = @ + 1]
         ELSE /\ wpc' = [wpc EXCEPT ![k][i] = "chk_scan"]
              /\ UNCHANGED permits
    /\ UNCHANGED <<is_scanning, scan_id, ctl, ctlTotal, scanRet, nScans,
                   scanCid, total, coord, spawned, completed, events, stopped>>
    /\ UNCHANGED <<connVars, netVars>>

WorkerCheckScanning(k, i) ==
    /\ wpc[k][i] = "chk_scan"
    /\ IF ~is_scanning
         THEN /\ wpc' = [wpc EXCEPT ![k][i] = "skipped"]
              /\ permits' = [permits EXCEPT ![k] = @ + 1]
         ELSE /\ wpc' = [wpc EXCEPT ![k][i] = "item_start"]
              /\ UNCHANGED permits
    /\ UNCHANGED <<is_scanning, scan_id, ctl, ctlTotal, scanRet, nScans,
                   scanCid, total, coord, spawned, completed, events, stopped>>
    /\ UNCHANGED <<connVars, netVars>>

\* emit dns-scan-item-start, then parse_server: a parsed server is probed,
\* an unparseable one goes straight to the completed counter
WorkerItemStart(k, i, valid) ==
    /\ wpc[k][i] = "item_start"
    /\ events' = events \cup {Ev("dns-scan-item-start", k, i)}
    /\ wpc' = [wpc EXCEPT ![k][i] = IF valid THEN "probing" ELSE "count"]
    /\ UNCHANGED <<is_scanning, scan_id, ctl, ctlTotal, scanRet, nScans,
                   scanCid, total, coord, spawned, permits, completed, stopped>>
    /\ UNCHANGED <<connVars, netVars>>

\* test_dnstt / test_slipstream returns (or the server was invalid), then
\* completed.lock().await; *comp += 1
WorkerCount(k, i) ==
    /\ wpc[k][i] \in {"probing", "count"}
    /\ completed' = [completed EXCEPT ![k] = @ + 1]
    /\ wpc' = [wpc EXCEPT ![k][i] = "emit"]
    /\ UNCHANGED <<is_scanning, scan_id, ctl, ctlTotal, scanRet, nScans,
                   scanCid, total, coord, spawned, permits, events, stopped>>
    /\ UNCHANGED <<connVars, netVars>>

\* under the read lock of scan_id: emit result and progress if the id is
\* current; then the task ends and its permit is dropped
WorkerEmit(k, i) ==
    /\ wpc[k][i] = "emit"
    /\ IF IdCurrent(k)
         THEN /\ events' = events \cup {Ev("dns-scan-result", k, i),
                                        Ev("dns-scan-progress", k, i)}
              /\ wpc' = [wpc EXCEPT ![k][i] = "done"]
         ELSE /\ wpc' = [wpc EXCEPT ![k][i] = "dropped"]
              /\ UNCHANGED events
    /\ permits' = [permits EXCEPT ![k] = @ + 1]
    /\ UNCHANGED <<is_scanning, scan_id, ctl, ctlTotal, scanRet, nScans,
                   scanCid, total, coord, spawned, completed, stopped>>
    /\ UNCHANGED <<connVars, netVars>>

ScanNext ==
    \/ \E n \in 0..MaxServers : StartScanEnter(n)
    \/ StartScanSpawn
    \/ StopScanClear
    \/ StopScanBump
    \/ \E k \in ScanSlots : CoordSpawn(k)
    \/ \E k \in ScanSlots : CoordJoin(k)
    \/ \E k \in ScanSlots : CoordComplete(k)
    \/ \E k \in ScanSlots, i \in ServerIdx : WorkerAcquire(k, i)
    \/ \E k \in ScanSlots, i \in ServerIdx : WorkerCheckId(k, i)
    \/ \E k \in ScanSlots, i \in ServerIdx : WorkerCheckScanning(k, i)
    \/ \E k \in ScanSlots, i \in ServerIdx, valid \in BOOLEAN : WorkerItemStart(k, i, valid)
    \/ \E k \in ScanSlots, i \in ServerIdx : WorkerCount(k, i)
    \/ \E k \in ScanSlots, i \in ServerIdx : WorkerEmit(k, i)

(***************************************************************************)
(* Connection orchestrator, process supervisor and proxy listeners.        *)
(***************************************************************************)
\* start() calls entered per behaviour
MaxStarts == 2
\* stop() calls entered per behaviour
MaxStops == 1
\* start() and stop() calls entered per behaviour
MaxCalls == 3
HTTP_PROXY_PORT == 8080
\* state.socks_port as written by ConnectionService::start
CONNECTED_SOCKS_PORT == 5201

\* the port the SOCKS5 front listens on
SOCKS_FORWARD_PORT == 10809
\* the port of the tunnel child's SOCKS5 server
SOCKS5_PORT == 5201

\* tasks that call start(), stop() or cleanup()
Callers == {1, 2}
\* the caller of a front end that awaits every call
SeqCallers == {1}
Listeners == {"http", "socks"}
ChildIds == 1..MaxStarts
LoopIds == 1..MaxStarts

\* ConnectionState::default()
DefaultState ==
    [status |-> "Disconnected", message |-> "none", target |-> FALSE,
     proxy_port |-> 0, socks_port |-> 0, system_proxy_enabled |-> FALSE]

\* the ConnectionConfig field start() keeps until its end; NoConfig outside
\* a call.  custom_dns_enabled and resolvers are read once, by the resolve
\* step, and drawn there.
NoConfig == [tun_mode |-> FALSE]

\* no status-update has been emitted
NoEvent == [is_running |-> FALSE, status |-> "none"]

\* ConnectionService::new, ProcessManager::new, ProxyService::new
ConnInit ==
    /\ state = DefaultState
    /\ pc = [c \in Callers |-> "idle"]
    /\ cfg = [c \in Callers |-> NoConfig]
    /\ ret = [c \in Callers |-> "none"]
    /\ from = [c \in Callers |-> "none"]
    /\ myChild = [c \in Callers |-> 0]
    /\ child = 0
    /\ procs = [i \in ChildIds |-> "none"]
    /\ nStarts = 0
    /\ nStops = 0
    /\ running = [l \in Listeners |-> FALSE]
    /\ abort = [l \in Listeners |-> 0]
    /\ loops = [l \in Listeners |-> [i \in LoopIds |-> "none"]]
    /\ sig = [l \in Listeners |-> [i \in LoopIds |-> FALSE]]
    /\ nLoops = [l \in Listeners |-> 0]
    /\ monitors = 0
    /\ sysProxy = FALSE
    /\ hist = <<>>
    /\ extFail = FALSE
    /\ wrote = [c \in Callers |-> "none"]
    /\ seen = [c \in Callers |-> "none"]
    /\ lastEvent = NoEvent
    /\ cleaning = 0
    /\ killedPorts = {}

\* ---- bounds and constants of the listeners' connections and the traffic ----
\* read() calls that return data, per direction of a tunnel
MaxReads == 2
\* bytes counted into each traffic counter by the connection tasks
MaxBytes == 2
\* saved configurations before an import
MaxConfigs == 2
\* characters of a configuration's remark
MaxRemark == 2
\* components of a version string
MaxParts == 3
\* lines read from the child's output
MaxLines == 3
\* resolvers of a connection's configuration
MaxResolvers == 2
\* the copy buffer of tunnel(): let mut buf = [0u8; 8192]
COPY_BUF == 8192
\* the traffic-monitor tasks (one is spawned by every HTTP bind that succeeds)
MonIds == {1, 2}
\* the two copy loops of a tunnel: client to server, server to client
Dirs == {"up", "down"}
\* what a read() into the copy buffer returns: one byte, or a full buffer
ReadSizes == {1, COPY_BUF}

NoConn == [l |-> "none", at |-> "none"]

NoMon == [at |-> "none", now_up |-> 0, now_down |-> 0, speed_up |-> 0]

NoCopy ==
    [at |-> "none", pending |-> 0, counted |-> 0, written |-> 0, reads |-> 0,
     shut |-> FALSE, joined |-> FALSE]

\* ProxyService::new: TrafficCounter::new(), no task, no connection
NetInit ==
    /\ conn = NoConn
    /\ uplink = 0
    /\ downlink = 0
    /\ prev_uplink = 0
    /\ prev_downlink = 0
    /\ mon = [m \in MonIds |-> NoMon]
    /\ sent = [up |-> 0, down |-> 0, read_up |-> 0, read_down |-> 0,
               total_up |-> 0, total_down |-> 0]
    /\ tunnel = [d \in Dirs |-> NoCopy]

\* ---- the settings and the calls that work on them -----------------------
\* a key that a JSON object or an Option does not hold

\* impl Default for Settings (the fields the claims are about)
DefaultSettings ==
    [resolvers |-> <<>>,
     authoritative |-> FALSE,
     system_proxy_enabled_by_app |-> FALSE,
     system_proxy_service_name |-> "",
     configs |-> <<>>,
     selected_config_id |-> [some |-> FALSE, v |-> <<>>]]

\* the OS proxy settings before the app has touched them (gsettings
\* org.gnome.system.proxy: mode, http host and port, https host and port)
OsUntouched ==
    [mode |-> "none", http_host |-> "", http_port |-> 0,
     https_host |-> "", https_port |-> 0]

NoCall == [op |-> "none"]

NoOutput == [events |-> <<>>, kill_ports |-> <<>>]

\* SettingsService::new and initialize: defaults, written to settings.json
AppInit ==
    /\ settings = DefaultSettings
    /\ disk = DefaultSettings
    /\ os = OsUntouched
    /\ call = NoCall
    /\ sup = NoOutput

Init == ScanInit /\ ConnInit /\ NetInit /\ AppInit

AllIdle == \A c \in Callers : pc[c] = "idle"

\* ConnectionService::is_running
IsRunning(s) == s.status = "Connected" \/ s.status = "Connecting"

\* the first write of start()
ConnectingState(s) ==
    [s EXCEPT !.status = "Connecting", !.target = TRUE,
              !.message = "Connecting..."]

\* a fail_connection that records the message only
FailedState_KeepStatus(s, msg) == [s EXCEPT !.message = msg]

\* the write of fail_connection()
FailedState(s, msg) == [s EXCEPT !.status = "Error", !.message = msg]

\* the last write of start()
ConnectedState(s, tun) ==
    [s EXCEPT !.status = "Connected", !.proxy_port = HTTP_PROXY_PORT,
              !.socks_port = CONNECTED_SOCKS_PORT, !.message = "Connected",
              !.system_proxy_enabled = tun]

\* a stop() whose first write is already the reset
DisconnectingState_Reset(s) ==
    [status |-> "Disconnected", message |-> "none", target |-> FALSE,
     proxy_port |-> 0, socks_port |-> 0, system_proxy_enabled |-> FALSE]

\* the first write of stop()
DisconnectingState(s) ==
    [s EXCEPT !.status = "Disconnecting", !.message = "Disconnecting..."]

\* a status was written: emit_status_update() is called next
BeginEmit(c, st) ==
    /\ wrote' = [wrote EXCEPT ![c] = st]
    /\ pc' = [pc EXCEPT ![c] = "emit_read"]

(***************************************************************************)
(* start(config): set Connecting.                                          *)
(***************************************************************************)
StartBegin(c, tun) ==
    /\ pc[c] = "idle"
    /\ nStarts < MaxStarts
    /\ Len(hist) < MaxCalls
    /\ nStarts' = nStarts + 1
    /\ hist' = Append(hist, "start")
    /\ from' = [from EXCEPT ![c] = state.status]
    /\ ret' = [ret EXCEPT ![c] = "none"]
    /\ cfg' = [cfg EXCEPT ![c] = [tun_mode |-> tun]]
    /\ state' = ConnectingState(state)
    /\ BeginEmit(c, "Connecting")
    /\ UNCHANGED <<myChild, child, procs, nStops, running, abort, loops, sig,
                   nLoops, monitors, sysProxy, extFail, seen, lastEvent,
                   exitVars>>
    /\ UNCHANGED <<scanVars, netVars>>

\* fail_connection(message): set Error; the call will return success = false
FailConnection(c, msg) ==
    /\ state' = FailedState(state, msg)
    /\ ret' = [ret EXCEPT ![c] = "fail"]
    /\ BeginEmit(c, "Error")
    /\ myChild' = [myChild EXCEPT ![c] = 0]
    /\ cfg' = [cfg EXCEPT ![c] = NoConfig]

(***************************************************************************)
(* start, step 1: dns_resolution.resolve when custom DNS is enabled and    *)
(* resolvers are given.                                                    *)
(***************************************************************************)
StartResolve(c, custom_dns, ok) ==
    /\ pc[c] = "s_dns"
    /\ IF custom_dns /\ ~ok
         THEN /\ FailConnection(c, "DNS Resolve failed")
              /\ extFail' = TRUE
         ELSE /\ pc' = [pc EXCEPT ![c] = "s_proc"]
              /\ UNCHANGED <<state, ret, myChild, cfg, extFail, wrote>>
    /\ UNCHANGED <<from, child, procs, nStarts, nStops, running, abort,
                   loops, sig, nLoops, monitors, sysProxy, hist, seen,
                   lastEvent, exitVars>>
    /\ UNCHANGED <<scanVars, netVars>>

\* what ProcessManager::start leaves in the child slot after a spawn: the
\* new handle, whatever the slot held
SlotAfterSpawn(held, new) == new

(***************************************************************************)
(* start, step 2a: ProcessManager::start up to the 2 second sleep: resolve *)
(* the binary, spawn, store the handle.                                    *)
(***************************************************************************)
PMStartSpawn(c, ok) ==
    /\ pc[c] = "s_proc"
    /\ IF ok
         THEN LET id == nStarts
              IN /\ procs' = [procs EXCEPT ![id] = "running"]
                 /\ child' = SlotAfterSpawn(child, id)
                 /\ myChild' = [myChild EXCEPT ![c] = id]
                 /\ pc' = [pc EXCEPT ![c] = "s_wait"]
                 /\ UNCHANGED <<state, ret, cfg, extFail, wrote>>
         ELSE /\ FailConnection(c, "Process failed")
              /\ extFail' = TRUE
              /\ UNCHANGED <<procs, child>>
    /\ UNCHANGED <<from, nStarts, nStops, running, abort, loops, sig,
                   nLoops, monitors, sysProxy, hist, seen, lastEvent,
                   exitVars>>
    /\ UNCHANGED <<scanVars, netVars>>

\* ProcessManager::is_running: true iff a child handle is held
PMIsRunning(slot, ps) == slot # 0

(***************************************************************************)
(* start, step 2b: after the sleep, ProcessManager::start returns Ok iff   *)
(* is_running().                                                           *)
(***************************************************************************)
PMStartReady(c) ==
    /\ pc[c] = "s_wait"
    /\ IF PMIsRunning(child, procs)
         THEN /\ pc' = [pc EXCEPT ![c] = "s_http"]
              /\ UNCHANGED <<state, ret, myChild, cfg, wrote>>
         ELSE FailConnection(c, "Process failed")
    /\ UNCHANGED <<from, child, procs, nStarts, nStops, running, abort,
                   loops, sig, nLoops, monitors, sysProxy, hist, extFail,
                   seen, lastEvent, exitVars>>
    /\ UNCHANGED <<scanVars, netVars>>

\* start_http_proxy / start_socks_forward_proxy: no-op when the flag is set;
\* else store a fresh abort sender (dropping the old one resolves its
\* receiver), set the flag and spawn the accept-loop task.  The body has no
\* await; a store to the flag by an accept-loop task falls before or after it
\* with the same outcome as between its load and its store.
StartListener(l) ==
    IF running[l]
      THEN UNCHANGED <<running, abort, loops, sig, nLoops>>
      ELSE LET id == nLoops[l] + 1
           IN /\ nLoops' = [nLoops EXCEPT ![l] = id]
              /\ abort' = [abort EXCEPT ![l] = id]
              /\ sig' = IF abort[l] # 0
                          THEN [sig EXCEPT ![l][abort[l]] = TRUE]
                          ELSE sig
              /\ running' = [running EXCEPT ![l] = TRUE]
              /\ loops' = [loops EXCEPT ![l][id] = "binding"]

(***************************************************************************)
(* start, step 3: start the HTTP proxy, then the SOCKS5 front.  Both       *)
(* return Ok (their only Err is a poisoned lock).                          *)
(***************************************************************************)
StartHttpProxy(c) ==
    /\ pc[c] = "s_http"
    /\ StartListener("http")
    /\ pc' = [pc EXCEPT ![c] = "s_socks"]
    /\ UNCHANGED <<state, cfg, ret, from, myChild, child, procs, nStarts,
                   nStops, monitors, sysProxy, hist, extFail, emitVars,
                   exitVars>>
    /\ UNCHANGED <<scanVars, netVars>>

StartSocksForwardProxy(c) ==
    /\ pc[c] = "s_socks"
    /\ StartListener("socks")
    /\ pc' = [pc EXCEPT ![c] = IF cfg[c].tun_mode THEN "s_sys" ELSE "s_fin"]
    /\ UNCHANGED <<state, cfg, ret, from, myChild, child, procs, nStarts,
                   nStops, monitors, sysProxy, hist, extFail, emitVars,
                   exitVars>>
    /\ UNCHANGED <<scanVars, netVars>>

(***************************************************************************)
(* start, step 4: system_proxy.configure() when config.tun_mode.           *)
(***************************************************************************)
StartConfigure(c) ==
    /\ pc[c] = "s_sys"
    /\ sysProxy' = TRUE
    /\ pc' = [pc EXCEPT ![c] = "s_fin"]
    /\ UNCHANGED <<state, cfg, ret, from, myChild, child, procs, nStarts,
                   nStops, running, abort, loops, sig, nLoops, monitors, hist,
                   extFail, emitVars, exitVars>>
    /\ UNCHANGED <<scanVars, netVars>>

(***************************************************************************)
(* start, last step: set Connected; the call will return success = true.   *)
(***************************************************************************)
StartFinish(c) ==
    /\ pc[c] = "s_fin"
    /\ state' = ConnectedState(state, cfg[c].tun_mode)
    /\ ret' = [ret EXCEPT ![c] = "ok"]
    /\ BeginEmit(c, "Connected")
    /\ myChild' = [myChild EXCEPT ![c] = 0]
    /\ cfg' = [cfg EXCEPT ![c] = NoConfig]
    /\ UNCHANGED <<from, child, procs, nStarts, nStops, running, abort,
                   loops, sig, nLoops, monitors, sysProxy, hist, extFail,
                   seen, lastEvent, exitVars>>
    /\ UNCHANGED <<scanVars, netVars>>

\* the first write of stop() and the emit_status_update call after it
StopEnter(c) ==
    /\ from' = [from EXCEPT ![c] = state.status]
    /\ ret' = [ret EXCEPT ![c] = "none"]
    /\ state' = DisconnectingState(state)
    /\ BeginEmit(c, "Disconnecting")

(***************************************************************************)
(* stop(): set Disconnecting.                                              *)
(***************************************************************************)
StopBegin(c) ==
    /\ pc[c] = "idle"
    /\ nStops < MaxStops
    /\ Len(hist) < MaxCalls
    /\ nStops' = nStops + 1
    /\ hist' = Append(hist, "stop")
    /\ StopEnter(c)
    /\ UNCHANGED <<cfg, myChild, child, procs, nStarts, running, abort, loops,
                   sig, nLoops, monitors, sysProxy, extFail, seen, lastEvent,
                   exitVars>>
    /\ UNCHANGED <<scanVars, netVars>>

\* where stop() goes after system_proxy.unconfigure(): its result is dropped
AfterUnconfigure_Abort(ok) == IF ok THEN "t_all" ELSE "idle"

AfterUnconfigure(ok) == "t_all"

\* stop, step 1: system_proxy.unconfigure(); when it fails the OS proxy
\* stays as it is
StopUnconfigure(c, ok) ==
    /\ pc[c] = "t_unconf"
    /\ sysProxy' = IF ok THEN FALSE ELSE sysProxy
    /\ pc' = [pc EXCEPT ![c] = AfterUnconfigure(ok)]
    /\ UNCHANGED <<state, cfg, ret, from, myChild, child, procs, nStarts,
                   nStops, running, abort, loops, sig, nLoops, monitors, hist,
                   extFail, emitVars, exitVars>>
    /\ UNCHANGED <<scanVars, netVars>>

\* stop, step 2: proxy_service.stop_all(): take and fire both abort
\* senders, clear both flags
StopAll(c) ==
    /\ pc[c] = "t_all"
    /\ sig' = [l \in Listeners |->
                 IF abort[l] # 0 THEN [sig[l] EXCEPT ![abort[l]] = TRUE]
                                 ELSE sig[l]]
    /\ abort' = [l \in Listeners |-> 0]
    /\ running' = [l \in Listeners |-> FALSE]
    /\ pc' = [pc EXCEPT ![c] = "t_proc"]
    /\ UNCHANGED <<state, cfg, ret, from, myChild, child, procs, nStarts,
                   nStops, loops, nLoops, monitors, sysProxy, hist, extFail,
                   emitVars, exitVars>>
    /\ UNCHANGED <<scanVars, netVars>>

\* ProcessManager::stop(): take the handle and start_kill it
ProcessManagerStop ==
    /\ child' = 0
    /\ procs' = IF child # 0 /\ procs[child] = "running"
                  THEN [procs EXCEPT ![child] = "killed"]
                  ELSE procs

\* stop, step 3: process_manager.stop()
PMStop(c) ==
    /\ pc[c] = "t_proc"
    /\ ProcessManagerStop
    /\ pc' = [pc EXCEPT ![c] = "t_reset"]
    /\ UNCHANGED <<state, cfg, ret, from, myChild, nStarts, nStops, running,
                   abort, loops, sig, nLoops, monitors, sysProxy, hist, extFail,
                   emitVars, exitVars>>
    /\ UNCHANGED <<scanVars, netVars>>

\* stop, last step: reset the state to the default; the call will return
\* success = true
StopFinish(c) ==
    /\ pc[c] = "t_reset"
    /\ state' = DefaultState
    /\ ret' = [ret EXCEPT ![c] = "ok"]
    /\ BeginEmit(c, "Disconnected")
    /\ UNCHANGED <<cfg, from, myChild, child, procs, nStarts, nStops, running,
                   abort, loops, sig, nLoops, monitors, sysProxy, hist, extFail,
                   seen, lastEvent, exitVars>>
    /\ UNCHANGED <<scanVars, netVars>>

(***************************************************************************)
(* emit_status_update(): get_status() and is_running() take the read lock  *)
(* of the state one after the other, each after the write lock of the      *)
(* caller's own write was released.                                        *)
(***************************************************************************)
EmitRead(c) ==
    /\ pc[c] = "emit_read"
    /\ seen' = [seen EXCEPT ![c] = state.status]
    /\ pc' = [pc EXCEPT ![c] = "emit_send"]
    /\ UNCHANGED <<state, cfg, ret, from, myChild, child, procs, nStarts,
                   nStops, running, abort, loops, sig, nLoops, monitors,
                   sysProxy, hist, extFail, wrote, lastEvent, exitVars>>
    /\ UNCHANGED <<scanVars, netVars>>

\* ConnectionEvent { is_running, details }
StatusUpdate(run, st) == [is_running |-> run, status |-> st]

\* where the caller goes on after the emit_status_update that followed its
\* write of status st
AfterEmit(c, st) ==
    CASE st = "Connecting" -> "s_dns"
      [] st = "Disconnecting" -> "t_unconf"
      [] st = "Disconnected" /\ cleaning = c -> "c_pstop"
      [] OTHER -> "idle"

EmitSend(c) ==
    /\ pc[c] = "emit_send"
    /\ lastEvent' = StatusUpdate(IsRunning(state), seen[c])
    /\ pc' = [pc EXCEPT ![c] = AfterEmit(c, wrote[c])]
    /\ wrote' = [wrote EXCEPT ![c] = "none"]
    /\ seen' = [seen EXCEPT ![c] = "none"]
    /\ UNCHANGED <<state, cfg, ret, from, myChild, child, procs, nStarts,
                   nStops, running, abort, loops, sig, nLoops, monitors,
                   sysProxy, hist, extFail, exitVars>>
    /\ UNCHANGED <<scanVars, netVars>>

\* a listening socket of this model holds the listener's port
PortHeld(l) == \E i \in LoopIds : loops[l][i] = "accepting"

(***************************************************************************)
(* Accept-loop task: TcpListener::bind.  It fails when the port is held,   *)
(* by an earlier accept loop or by a foreign process (free = FALSE); the   *)
(* task then clears the running flag and ends.  The HTTP task spawns a     *)
(* traffic monitor once bound.                                             *)
(***************************************************************************)
LoopBind(l, i, free) ==
    /\ loops[l][i] = "binding"
    /\ IF free /\ ~PortHeld(l)
         THEN /\ loops' = [loops EXCEPT ![l][i] = "accepting"]
              /\ monitors' = IF l = "http" THEN monitors + 1 ELSE monitors
              /\ UNCHANGED <<running, extFail>>
         ELSE /\ loops' = [loops EXCEPT ![l][i] = "bind_failed"]
              /\ running' = [running EXCEPT ![l] = FALSE]
              /\ extFail' = (extFail \/ ~PortHeld(l))
              /\ UNCHANGED monitors
    /\ UNCHANGED <<state, pc, cfg, ret, from, myChild, child, procs, nStarts,
                   nStops, abort, sig, nLoops, sysProxy, hist, emitVars,
                   exitVars>>
    /\ UNCHANGED <<scanVars, netVars>>

(***************************************************************************)
(* Accept-loop task: the abort receiver resolved; leave the loop, clear    *)
(* the running flag, drop the listener.                                    *)
(***************************************************************************)
LoopExit(l, i) ==
    /\ loops[l][i] = "accepting"
    /\ sig[l][i]
    /\ loops' = [loops EXCEPT ![l][i] = "ended"]
    /\ running' = [running EXCEPT ![l] = FALSE]
    /\ UNCHANGED <<state, pc, cfg, ret, from, myChild, child, procs, nStarts,
                   nStops, abort, sig, nLoops, monitors, sysProxy, hist,
                   extFail, emitVars, exitVars>>
    /\ UNCHANGED <<scanVars, netVars>>

\* the tunnel child exits by itself
ChildExit(i) ==
    /\ procs[i] = "running"
    /\ procs' = [procs EXCEPT ![i] = "exited"]
    /\ extFail' = TRUE
    /\ UNCHANGED <<state, pc, cfg, ret, from, myChild, child, nStarts, nStops,
                   running, abort, loops, sig, nLoops, monitors, sysProxy, hist,
                   emitVars, exitVars>>
    /\ UNCHANGED <<scanVars, netVars>>

\* the steps of the tasks that run beside the callers
ConnTasks ==
    \/ \E l \in Listeners, i \in LoopIds, free \in BOOLEAN : LoopBind(l, i, free)
    \/ \E l \in Listeners, i \in LoopIds : LoopExit(l, i)
    \/ \E i \in ChildIds : ChildExit(i)

\* the steps inside a start() or stop() call
ConnSteps(c) ==
    \/ \E custom_dns \in BOOLEAN, ok \in BOOLEAN : StartResolve(c, custom_dns, ok)
    \/ \E ok \in BOOLEAN : PMStartSpawn(c, ok)
    \/ PMStartReady(c)
    \/ StartHttpProxy(c)
    \/ StartSocksForwardProxy(c)
    \/ StartConfigure(c)
    \/ StartFinish(c)
    \/ \E ok \in BOOLEAN : StopUnconfigure(c, ok)
    \/ StopAll(c)
    \/ PMStop(c)
    \/ StopFinish(c)
    \/ EmitRead(c)
    \/ EmitSend(c)

\* a caller that awaits every call before it makes the next one
SeqStart(c, tun) == AllIdle /\ StartBegin(c, tun)

SeqStop(c) == AllIdle /\ StopBegin(c)

SeqNext ==
    \/ \E c \in SeqCallers, tun \in BOOLEAN : SeqStart(c, tun)
    \/ \E c \in SeqCallers : SeqStop(c)
    \/ \E c \in Callers : ConnSteps(c)
    \/ ConnTasks

SeqSpec == Init /\ [][SeqNext]_vars

(***************************************************************************)
(* Exit: the ExitRequested handler blocks on AppState::cleanup while the   *)
(* commands in flight go on running on the runtime's worker threads.       *)
(***************************************************************************)
\* the ports AppState::cleanup hands to kill_ports
CLEANUP_PORTS == {5201, 8080, 10809}

CleanupBegin(c) ==
    /\ pc[c] = "idle"
    /\ cleaning = 0
    /\ cleaning' = c
    /\ pc' = [pc EXCEPT ![c] = "c_chk"]
    /\ UNCHANGED <<state, cfg, ret, from, myChild, child, procs, nStarts,
                   nStops, running, abort, loops, sig, nLoops, monitors,
                   sysProxy, hist, extFail, emitVars, killedPorts>>
    /\ UNCHANGED <<scanVars, netVars>>

\* ConnectionService::cleanup: if self.is_running() { stop().await }
CleanupCheck(c) ==
    /\ pc[c] = "c_chk"
    /\ pc' = [pc EXCEPT ![c] = IF IsRunning(state) THEN "c_stop" ELSE "c_pstop"]
    /\ UNCHANGED <<state, cfg, ret, from, myChild, child, procs, nStarts,
                   nStops, running, abort, loops, sig, nLoops, monitors,
                   sysProxy, hist, extFail, emitVars, exitVars>>
    /\ UNCHANGED <<scanVars, netVars>>

\* the stop() called by ConnectionService::cleanup is entered
CleanupStop(c) ==
    /\ pc[c] = "c_stop"
    /\ StopEnter(c)
    /\ UNCHANGED <<cfg, myChild, child, procs, nStarts, nStops, running, abort,
                   loops, sig, nLoops, monitors, sysProxy, hist, extFail, seen,
                   lastEvent, exitVars>>
    /\ UNCHANGED <<scanVars, netVars>>

\* AppState::cleanup: self.process.stop()
CleanupProcessStop(c) ==
    /\ pc[c] = "c_pstop"
    /\ ProcessManagerStop
    /\ pc' = [pc EXCEPT ![c] = "c_kill"]
    /\ UNCHANGED <<state, cfg, ret, from, myChild, nStarts, nStops, running,
                   abort, loops, sig, nLoops, monitors, sysProxy, hist, extFail,
                   emitVars, exitVars>>
    /\ UNCHANGED <<scanVars, netVars>>

\* AppState::cleanup: kill_ports(&[5201, 8080, 10809]), which kills the
\* child that listens on 5201, if one does; cleanup returns
CleanupKillPorts(c, victim) ==
    /\ pc[c] = "c_kill"
    /\ IF victim = 0 THEN TRUE ELSE procs[victim] = "running"
    /\ killedPorts' = CLEANUP_PORTS
    /\ procs' = IF victim # 0 THEN [procs EXCEPT ![victim] = "killed"] ELSE procs
    /\ pc' = [pc EXCEPT ![c] = "idle"]
    /\ UNCHANGED <<state, cfg, ret, from, myChild, child, nStarts, nStops,
                   running, abort, loops, sig, nLoops, monitors, sysProxy, hist,
                   extFail, emitVars, cleaning>>
    /\ UNCHANGED <<scanVars, netVars>>

CleanupSteps(c) ==
    \/ CleanupCheck(c)
    \/ CleanupStop(c)
    \/ CleanupProcessStop(c)
    \/ \E victim \in ChildIds \cup {0} : CleanupKillPorts(c, victim)

\* commands arrive until the exit is requested
ConcStart(c, tun) == cleaning = 0 /\ StartBegin(c, tun)

ConcStop(c) == cleaning = 0 /\ StopBegin(c)

(***************************************************************************)
(* Commands that are not awaited: start_service is invoked by one caller,  *)
(* stop_service and the exit by another, and their steps interleave.       *)
(***************************************************************************)
\* the steps inside a call when every external step succeeds
ConcSteps(c) ==
    \/ StartResolve(c, FALSE, TRUE)
    \/ PMStartSpawn(c, TRUE)
    \/ PMStartReady(c)
    \/ StartHttpProxy(c)
    \/ StartSocksForwardProxy(c)
    \/ StartConfigure(c)
    \/ StartFinish(c)
    \/ StopUnconfigure(c, TRUE)
    \/ StopAll(c)
    \/ PMStop(c)
    \/ StopFinish(c)
    \/ EmitRead(c)
    \/ EmitSend(c)

\* the accept-loop tasks when no foreign process holds a port
ConcTasks ==
    \/ \E l \in Listeners, i \in LoopIds : LoopBind(l, i, TRUE)
    \/ \E l \in Listeners, i \in LoopIds : LoopExit(l, i)

ConcNext ==
    \/ \E c \in SeqCallers, tun \in BOOLEAN : ConcStart(c, tun)
    \/ \E c \in Callers \ SeqCallers : ConcStop(c)
    \/ \E c \in Callers \ SeqCallers : CleanupBegin(c)
    \/ \E c \in Callers : CleanupSteps(c)
    \/ \E c \in Callers : ConcSteps(c)
    \/ ConcTasks

ConcSpec == Init /\ [][ConcNext]_vars

(***************************************************************************)
(* Commands that overlap freely: start_service and stop_service are async  *)
(* commands, and either caller may invoke either while the other's call is *)
(* in flight.                                                              *)
(***************************************************************************)
\* the start() of caller c has not yet spawned its child
BeforeSpawn(c) ==
    \/ pc[c] \in {"s_dns", "s_proc"}
    \/ pc[c] \in {"emit_read", "emit_send"} /\ wrote[c] = "Connecting"

\* children are numbered in the order of the start() calls: a start() is
\* entered when no earlier one is still before its spawn
OverlapStart(c, tun) == (\A d \in Callers : ~BeforeSpawn(d)) /\ StartBegin(c, tun)

OverlapNext ==
    \/ \E c \in Callers, tun \in BOOLEAN : OverlapStart(c, tun)
    \/ \E c \in Callers : StopBegin(c)
    \/ \E c \in Callers : ConcSteps(c)
    \/ ConcTasks

OverlapSpec == Init /\ [][OverlapNext]_vars

(***************************************************************************)
(* The connections of the two accept loops.  A connection is handled by a  *)
(* task of its own, which gets the stream, the settings and the traffic    *)
(* counter; conn holds the listener of the connection accepted last and    *)
(* how far its handler has come, or how it failed.                         *)
(***************************************************************************)
\* no handler is at work on conn
ConnOver == conn.at \notin {"greeting", "request", "connect", "response",
                            "serve", "upgrade", "forward", "tunnel"}

\* the handler of conn is at this position
ConnAt(l, at) == conn.l = l /\ conn.at = at

\* the handler goes on to, or ends with, at
ConnTo(at) ==
    /\ conn' = [conn EXCEPT !.at = at]
    /\ UNCHANGED <<connVars, scanVars, trafVars, appVars>>

\* accept() returned a stream: spawn its handler and go on accepting
LoopAccept(l, i) ==
    /\ loops[l][i] = "accepting"
    /\ ConnOver
    /\ conn' = [l |-> l, at |-> IF l = "http" THEN "serve" ELSE "greeting"]
    /\ UNCHANGED <<connVars, scanVars, trafVars, appVars>>

\* the accept loop after accept() returned an error: error!() and go on
AfterAcceptError_Break(cur) == "ended"

AfterAcceptError(cur) == cur

\* accept() returned an error
LoopAcceptError(l, i) ==
    /\ loops[l][i] = "accepting"
    /\ ConnOver
    /\ conn' = [l |-> l, at |-> "accept_error"]
    /\ loops' = [loops EXCEPT ![l][i] = AfterAcceptError(@)]
    /\ UNCHANGED <<state, pc, cfg, ret, from, myChild, child, procs, nStarts,
                   nStops, running, abort, sig, nLoops, monitors, sysProxy,
                   hist, extFail, emitVars, exitVars>>
    /\ UNCHANGED <<scanVars, trafVars, appVars>>

\* SOCKS5 front, steps 1-2: read the greeting, answer "no auth"
BridgeGreeting(valid) ==
    /\ ConnAt("socks", "greeting")
    /\ ConnTo(IF valid THEN "request" ELSE "invalid_greeting")

\* the address types of a SOCKS5 request: IPv4, domain name, IPv6
Atyps == {1, 3, 4}

\* SOCKS5 front, step 3: read the request and parse the target
BridgeRequest(valid, atyp) ==
    /\ ConnAt("socks", "request")
    /\ ConnTo(IF ~valid THEN "invalid_request"
              ELSE IF atyp \notin {1, 3} THEN "unsupported_atyp"
              ELSE "connect")

\* SOCKS5 front, steps 4-5: connect to the local HTTP proxy, send CONNECT
BridgeConnect(ok) ==
    /\ ConnAt("socks", "connect")
    /\ ConnTo(IF ok /\ PortHeld("http") THEN "response" ELSE "connect_failed")

\* SOCKS5 front, step 6: read the HTTP proxy's answer, reply to the client
BridgeResponse(established) ==
    /\ ConnAt("socks", "response")
    /\ ConnTo(IF established THEN "tunnel" ELSE "rejected")

\* HTTP proxy: hyper serves the connection and hands a request to
\* handle_request, or fails to read one
HandleRequest(kind) ==
    /\ ConnAt("http", "serve")
    /\ ConnTo(CASE kind = "CONNECT" -> "upgrade"
                [] kind = "GET" -> "forward"
                [] OTHER -> "serve_error")

\* a process listens on the upstream SOCKS5 port
UpstreamAlive == \E i \in ChildIds : procs[i] = "running"

\* HTTP proxy, handle_connect: upgrade, then the SOCKS5 handshake with the
\* tunnel child
HandleConnect(ok) ==
    /\ ConnAt("http", "upgrade")
    /\ ConnTo(IF ok /\ UpstreamAlive THEN "tunnel" ELSE "socks5_failed")

\* HTTP proxy, handle_http_request: SOCKS5 handshake, HTTP handshake, send
HandleHttpRequest(outcome) ==
    /\ ConnAt("http", "forward")
    /\ ConnTo(IF UpstreamAlive THEN outcome ELSE "service_unavailable")

\* how a forwarded HTTP request ends
ForwardOutcomes == {"service_unavailable", "bad_gateway", "closed"}

\* both copy loops of a tunnel are over
TunnelClosed ==
    /\ conn.at = "tunnel"
    /\ ConnTo("closed")

ConnActions ==
    \/ \E l \in Listeners, i \in LoopIds : LoopAccept(l, i)
    \/ \E l \in Listeners, i \in LoopIds : LoopAcceptError(l, i)
    \/ \E valid \in BOOLEAN : BridgeGreeting(valid)
    \/ \E valid \in BOOLEAN, atyp \in Atyps : BridgeRequest(valid, atyp)
    \/ \E ok \in BOOLEAN : BridgeConnect(ok)
    \/ \E established \in BOOLEAN : BridgeResponse(established)
    \/ \E kind \in {"CONNECT", "GET", "garbage"} : HandleRequest(kind)
    \/ \E ok \in BOOLEAN : HandleConnect(ok)
    \/ \E outcome \in ForwardOutcomes : HandleHttpRequest(outcome)
    \/ TunnelClosed

\* awaited start() and stop() calls whose external steps succeed, the accept
\* loops, and the connections the loops accept
ListenNext ==
    \/ \E c \in SeqCallers, tun \in BOOLEAN : SeqStart(c, tun)
    \/ \E c \in SeqCallers : SeqStop(c)
    \/ \E c \in Callers : ConcSteps(c)
    \/ ConcTasks
    \/ ConnActions

ListenSpec == Init /\ [][ListenNext]_vars

(***************************************************************************)
(* TrafficCounter, the traffic-monitor tasks and the copy loops of a       *)
(* CONNECT tunnel.                                                         *)
(***************************************************************************)
\* AtomicU64::fetch_add
FetchAdd_Sub(cur, n) == cur - n

FetchAdd(cur, n) == cur + n

\* u64::saturating_sub
SaturatingSub(a, b) == IF a >= b THEN a - b ELSE 0

\* the HTTP accept-loop task has bound its port: spawn a traffic monitor
MonitorSpawn(m) ==
    /\ mon[m].at = "none"
    /\ \A o \in MonIds : o < m => mon[o].at # "none"
    /\ mon' = [mon EXCEPT ![m].at = "tick"]
    /\ UNCHANGED <<uplink, downlink, prev_uplink, prev_downlink, sent, tunnel>>
    /\ UNCHANGED <<scanVars, connVars, conn, appVars>>

\* interval.tick() returned; get_and_reset_speed: uplink.load
MonitorLoadUp(m) ==
    /\ mon[m].at = "tick"
    /\ mon' = [mon EXCEPT ![m].at = "load_down", ![m].now_up = uplink]
    /\ UNCHANGED <<uplink, downlink, prev_uplink, prev_downlink, sent, tunnel>>
    /\ UNCHANGED <<scanVars, connVars, conn, appVars>>

\* get_and_reset_speed: downlink.load
MonitorLoadDown(m) ==
    /\ mon[m].at = "load_down"
    /\ mon' = [mon EXCEPT ![m].at = "swap_up", ![m].now_down = downlink]
    /\ UNCHANGED <<uplink, downlink, prev_uplink, prev_downlink, sent, tunnel>>
    /\ UNCHANGED <<scanVars, connVars, conn, appVars>>

\* get_and_reset_speed: prev_uplink.swap(now_up)
MonitorSwapUp(m) ==
    /\ mon[m].at = "swap_up"
    /\ prev_uplink' = mon[m].now_up
    /\ mon' = [mon EXCEPT ![m].at = "swap_down",
                          ![m].speed_up = SaturatingSub(mon[m].now_up, prev_uplink)]
    /\ UNCHANGED <<uplink, downlink, prev_downlink, sent, tunnel>>
    /\ UNCHANGED <<scanVars, connVars, conn, appVars>>

\* get_and_reset_speed: prev_downlink.swap(now_down); then send the update
MonitorSwapDown(m) ==
    /\ mon[m].at = "swap_down"
    /\ prev_downlink' = mon[m].now_down
    /\ LET speed_down == SaturatingSub(mon[m].now_down, prev_downlink) IN
         sent' = [up |-> mon[m].speed_up,
                  down |-> speed_down,
                  read_up |-> mon[m].now_up,
                  read_down |-> mon[m].now_down,
                  total_up |-> sent.total_up + mon[m].speed_up,
                  total_down |-> sent.total_down + speed_down]
    /\ mon' = [mon EXCEPT ![m] = [NoMon EXCEPT !.at = "tick"]]
    /\ UNCHANGED <<uplink, downlink, prev_uplink, tunnel>>
    /\ UNCHANGED <<scanVars, connVars, conn, appVars>>

\* tunnel(): both copy loops start
TunnelStart ==
    /\ \A d \in Dirs : tunnel[d].at = "none"
    /\ tunnel' = [d \in Dirs |-> [NoCopy EXCEPT !.at = "read"]]
    /\ UNCHANGED <<uplink, downlink, prev_uplink, prev_downlink, mon, sent>>
    /\ UNCHANGED <<scanVars, connVars, conn, appVars>>

\* the argument of add_uplink / add_downlink for a read of n bytes
CountedBytes_Buffer(n) == COPY_BUF

CountedBytes(n) == n

\* a copy loop: read() returned n bytes; count them
TunnelRead(d, n) ==
    /\ tunnel[d].at = "read"
    /\ tunnel[d].reads < MaxReads
    /\ tunnel' = [tunnel EXCEPT ![d].at = "write",
                          ![d].pending = n,
                          ![d].counted = @ + CountedBytes(n),
                          ![d].reads = @ + 1]
    /\ IF d = "up"
         THEN uplink' = FetchAdd(uplink, CountedBytes(n)) /\ UNCHANGED downlink
         ELSE downlink' = FetchAdd(downlink, CountedBytes(n)) /\ UNCHANGED uplink
    /\ UNCHANGED <<prev_uplink, prev_downlink, mon, sent>>
    /\ UNCHANGED <<scanVars, connVars, conn, appVars>>

\* what one write() inside write_all takes of p pending bytes: all of them,
\* or all but the last one
WriteTakes(p, all) == IF all THEN p ELSE p - 1

\* a copy loop inside write_all: the stream takes some of the pending bytes
TunnelWrite(d, all) ==
    /\ tunnel[d].at = "write"
    /\ WriteTakes(tunnel[d].pending, all) > 0
    /\ LET k == WriteTakes(tunnel[d].pending, all) IN
         tunnel' = [tunnel EXCEPT ![d].written = @ + k,
                                  ![d].pending = @ - k,
                                  ![d].at = IF all THEN "read" ELSE "write"]
    /\ UNCHANGED <<uplink, downlink, prev_uplink, prev_downlink, mon, sent>>
    /\ UNCHANGED <<scanVars, connVars, conn, appVars>>

\* a copy loop: write_all returned an error; leave the loop
TunnelWriteError(d) ==
    /\ tunnel[d].at = "write"
    /\ tunnel' = [tunnel EXCEPT ![d].at = "write_error"]
    /\ UNCHANGED <<uplink, downlink, prev_uplink, prev_downlink, mon, sent>>
    /\ UNCHANGED <<scanVars, connVars, conn, appVars>>

\* a copy loop: read() returned Ok(0) or an error; leave the loop
TunnelReadEnd(d) ==
    /\ tunnel[d].at = "read"
    /\ tunnel' = [tunnel EXCEPT ![d].at = "eof"]
    /\ UNCHANGED <<uplink, downlink, prev_uplink, prev_downlink, mon, sent>>
    /\ UNCHANGED <<scanVars, connVars, conn, appVars>>

\* the copy loops whose write half a shutdown() after the loop of direction
\* d shuts down: s_w for client_to_server, c_w for server_to_client
ShutdownSides_Both(d) == Dirs

ShutdownSides(d) == {d}

\* a copy loop has been left: shutdown() of the half it wrote to
TunnelShutdown(d) ==
    /\ tunnel[d].at \in {"eof", "write_error"}
    /\ ~tunnel[d].shut
    /\ tunnel' = [e \in Dirs |->
                     IF e \in ShutdownSides(d)
                       THEN [tunnel[e] EXCEPT !.shut = TRUE]
                       ELSE tunnel[e]]
    /\ UNCHANGED <<uplink, downlink, prev_uplink, prev_downlink, mon, sent>>
    /\ UNCHANGED <<scanVars, connVars, conn, appVars>>

\* tokio::join!(client_to_server, server_to_client) returns: both futures
\* have run to their end; the tunnel is closed
TunnelJoin ==
    /\ \A d \in Dirs : tunnel[d].at \in {"eof", "write_error"} /\ tunnel[d].shut
    /\ \E d \in Dirs : ~tunnel[d].joined
    /\ tunnel' = [d \in Dirs |-> [tunnel[d] EXCEPT !.joined = TRUE]]
    /\ UNCHANGED <<uplink, downlink, prev_uplink, prev_downlink, mon, sent>>
    /\ UNCHANGED <<scanVars, connVars, conn, appVars>>

\* TrafficCounter::add_uplink, called by the task of some connection
AddUplink(n) ==
    /\ uplink + n <= MaxBytes
    /\ uplink' = FetchAdd(uplink, n)
    /\ UNCHANGED <<downlink, prev_uplink, prev_downlink, mon, sent, tunnel>>
    /\ UNCHANGED <<scanVars, connVars, conn, appVars>>

\* TrafficCounter::add_downlink, called by the task of some connection
AddDownlink(n) ==
    /\ downlink + n <= MaxBytes
    /\ downlink' = FetchAdd(downlink, n)
    /\ UNCHANGED <<uplink, prev_uplink, prev_downlink, mon, sent, tunnel>>
    /\ UNCHANGED <<scanVars, connVars, conn, appVars>>

\* the counters, the connection tasks that add to them and the monitors
TrafficNext ==
    \/ \E m \in MonIds : MonitorSpawn(m)
    \/ \E m \in MonIds : MonitorLoadUp(m)
    \/ \E m \in MonIds : MonitorLoadDown(m)
    \/ \E m \in MonIds : MonitorSwapUp(m)
    \/ \E m \in MonIds : MonitorSwapDown(m)
    \/ \E n \in 1..MaxBytes : AddUplink(n)
    \/ \E n \in 1..MaxBytes : AddDownlink(n)

TrafficSpec == Init /\ [][TrafficNext]_vars

\* one CONNECT tunnel and the counters it adds to
TunnelNext ==
    \/ TunnelStart
    \/ \E d \in Dirs, n \in ReadSizes : TunnelRead(d, n)
    \/ \E d \in Dirs, all \in BOOLEAN : TunnelWrite(d, all)
    \/ \E d \in Dirs : TunnelWriteError(d)
    \/ \E d \in Dirs : TunnelReadEnd(d)
    \/ \E d \in Dirs : TunnelShutdown(d)
    \/ TunnelJoin

TunnelSpec == Init /\ [][TunnelNext]_vars

(***************************************************************************)
(* Text.  A text is a sequence of characters; the base64 encoding of a     *)
(* JSON document is kept as one element that holds the document (blob),    *)
(* which no character equals and which only decodes when it stands alone.  *)
(***************************************************************************)
Ch(c) == [ch |-> c, blob |-> <<>>]

Blob(doc) == [ch |-> "base64", blob |-> <<doc>>]

LF == Ch("\n")

\* the characters str::trim removes
WhiteSpace == {Ch(" "), LF}

Text(str) == [i \in 1..Len(str) |-> Ch(str[i])]

SCHEME == Text(<<"s", "s", "g", "a", "t", "e", ":">>)

SEPARATOR == Text(<<"/", "/">>)

RECURSIVE TrimStart(_)
TrimStart(t) ==
    IF t # <<>> /\ Head(t) \in WhiteSpace THEN TrimStart(Tail(t)) ELSE t

RECURSIVE TrimEnd(_)
TrimEnd(t) ==
    IF t # <<>> /\ t[Len(t)] \in WhiteSpace
      THEN TrimEnd(SubSeq(t, 1, Len(t) - 1))
      ELSE t

\* str::trim
Trim(t) == TrimEnd(TrimStart(t))

\* str::starts_with
StartsWith(t, prefix) ==
    /\ Len(t) >= Len(prefix)
    /\ SubSeq(t, 1, Len(prefix)) = prefix

\* str::find: the first position where pat begins, 0 for None
Find(t, pat) ==
    LET hits == {i \in 1..(Len(t) - Len(pat) + 1) :
                    SubSeq(t, i, i + Len(pat) - 1) = pat}
    IN IF hits = {} THEN 0 ELSE CHOOSE i \in hits : \A j \in hits : i <= j

\* str::split(c): the pieces between the occurrences of c
RECURSIVE Split(_, _)
Split(t, c) ==
    LET i == Find(t, <<c>>) IN
    IF i = 0 THEN <<t>>
    ELSE <<SubSeq(t, 1, i - 1)>> \o Split(SubSeq(t, i + 1, Len(t)), c)

\* Vec<String>::join(c)
RECURSIVE Join(_, _)
Join(ts, c) ==
    IF ts = <<>> THEN <<>>
    ELSE IF Len(ts) = 1 THEN ts[1]
    ELSE ts[1] \o <<c>> \o Join(Tail(ts), c)

(***************************************************************************)
(* SettingsService                                                         *)
(***************************************************************************)
None == [some |-> FALSE, v |-> <<>>]

Some(x) == [some |-> TRUE, v |-> <<x>>]

\* serde_json::Value: null, a boolean, a number, a string, an array of
\* values, an object (here: the document of a ConfigItem)
JNull == [t |-> "null", b |-> FALSE, n |-> 0, s |-> "", a |-> <<>>]

JBool(b) == [JNull EXCEPT !.t = "bool", !.b = b]

JNum(n) == [JNull EXCEPT !.t = "number", !.n = n]

JStr(str) == [JNull EXCEPT !.t = "string", !.s = str]

JArr(values) == [JNull EXCEPT !.t = "array", !.a = values]

JObj(doc) == [JNull EXCEPT !.t = "object", !.a = <<doc>>]

\* arr.iter().filter_map(|v| v.as_str().map(String::from)).collect()
RECURSIVE FilterMapStr(_)
FilterMapStr(values) ==
    IF values = <<>> THEN <<>>
    ELSE LET rest == FilterMapStr(Tail(values)) IN
         IF Head(values).t = "string" THEN <<Head(values).s>> \o rest
         ELSE rest

\* serde_json::from_value::<Vec<ConfigItem>>(value)
FromValue(value) ==
    IF /\ value.t = "array"
       /\ \A i \in DOMAIN value.a : value.a[i].t = "object"
      THEN Some([i \in DOMAIN value.a |-> value.a[i].a[1]])
      ELSE None

\* save(): the keys of the patch that save() knows are merged into the
\* settings; a key it does not know is ignored
Merge_Nothing(s, patch) == s

Merge(s, patch) ==
    LET has(key, type) == key \in DOMAIN patch /\ patch[key].t = type IN
    [resolvers |->
        IF has("resolvers", "array")
          THEN FilterMapStr(patch.resolvers.a)
          ELSE s.resolvers,
     authoritative |->
        IF has("authoritative", "bool") THEN patch.authoritative.b
        ELSE s.authoritative,
     system_proxy_enabled_by_app |->
        IF has("systemProxyEnabledByApp", "bool")
          THEN patch.systemProxyEnabledByApp.b
          ELSE s.system_proxy_enabled_by_app,
     system_proxy_service_name |->
        IF has("systemProxyServiceName", "string")
          THEN patch.systemProxyServiceName.s
          ELSE s.system_proxy_service_name,
     configs |->
        IF "configs" \in DOMAIN patch /\ FromValue(patch.configs).some
          THEN FromValue(patch.configs).v[1]
          ELSE s.configs,
     selected_config_id |->
        IF has("selectedConfigId", "string")
          THEN IF patch.selectedConfigId.s = "" THEN None
               ELSE Some(patch.selectedConfigId.s)
        ELSE IF has("selectedConfigId", "null") THEN None
        ELSE s.selected_config_id]

\* save_to_disk(): serialise the settings into settings.json, or fail
SaveToDisk(written) ==
    disk' = IF written THEN settings' ELSE disk

\* save(updates): merge, save_to_disk()?, get_all()
SettingsSave(patch, written) ==
    /\ settings' = Merge(settings, patch)
    /\ SaveToDisk(written)

\* the save_settings command
Save(patch, written) ==
    /\ SettingsSave(patch, written)
    /\ call' = [op |-> "save", ok |-> written]
    /\ UNCHANGED <<os, sup>>
    /\ UNCHANGED <<scanVars, connVars, conn, trafVars>>

\* export_configs: the JSON document of a configuration
ExportDoc(config) ==
    [remark |-> config.remark, domain |-> config.domain,
     country |-> config.country, socks |-> config.socks]

\* export_configs: the line of a configuration
ExportLine(config) ==
    SCHEME \o config.remark \o SEPARATOR \o <<Blob(ExportDoc(config))>>

\* export_configs
ExportText(configs) ==
    Join([i \in 1..Len(configs) |-> ExportLine(configs[i])], LF)

ExportConfigs ==
    /\ call' = [op |-> "export", ok |-> TRUE, out |-> ExportText(settings.configs)]
    /\ UNCHANGED <<settings, disk, os, sup>>
    /\ UNCHANGED <<scanVars, connVars, conn, trafVars>>

\* general_purpose::STANDARD.decode, String::from_utf8 and
\* serde_json::from_str: the document, or none
Decode(t) ==
    IF Len(t) = 1 /\ t[1].ch = "base64" THEN t[1].blob ELSE <<>>

\* import_configs: of the trimmed lines, those that start with the scheme
RECURSIVE SchemeLines(_)
SchemeLines(lines) ==
    IF lines = <<>> THEN <<>>
    ELSE (IF StartsWith(Trim(Head(lines)), SCHEME)
            THEN <<Trim(Head(lines))>> ELSE <<>>)
         \o SchemeLines(Tail(lines))

\* import_configs: the lines of the data that are read
ImportLines(data) == SchemeLines(Split(data, LF))

\* import_configs: what one line yields (no id yet): a configuration or none
ImportLine(line) ==
    LET idx == Find(line, SEPARATOR)
        docs == IF idx = 0 THEN <<>>
                ELSE Decode(SubSeq(line, idx + 2, Len(line)))
    IN [i \in 1..Len(docs) |->
           [remark |-> docs[i].remark, domain |-> docs[i].domain,
            country |-> docs[i].country, socks |-> docs[i].socks]]

\* import_configs: the loop over the lines; a line that yields nothing is
\* counted in error_count and the loop goes on
RECURSIVE ImportAll_Abort(_)
ImportAll_Abort(lines) ==
    IF lines = <<>> \/ ImportLine(Head(lines)) = <<>> THEN <<>>
    ELSE ImportLine(Head(lines)) \o ImportAll_Abort(Tail(lines))

RECURSIVE ImportAll(_)
ImportAll(lines) ==
    IF lines = <<>> THEN <<>>
    ELSE ImportLine(Head(lines)) \o ImportAll(Tail(lines))

\* Uuid::new_v4() for the configuration stored at position i
NewId(i) == 100 + i

\* import_configs: the configurations appended to those held
Imported(configs, found) ==
    [i \in 1..Len(found) |->
        [id |-> NewId(Len(configs) + i), remark |-> found[i].remark,
         domain |-> found[i].domain, country |-> found[i].country,
         socks |-> found[i].socks]]

\* import_configs(data)
ImportConfigs(data, written) ==
    /\ Len(settings.configs) <= MaxConfigs
    /\ IF Trim(data) = <<>>
         THEN /\ call' = [op |-> "import", ok |-> FALSE, imported_count |-> 0,
                          error_count |-> 0, data |-> data]
              /\ UNCHANGED <<settings, disk>>
         ELSE LET lines == ImportLines(data)
                  found == ImportAll(lines) IN
              /\ settings' = [settings EXCEPT
                                !.configs = @ \o Imported(@, found)]
              /\ SaveToDisk(written)
              /\ call' = [op |-> "import", ok |-> written,
                          imported_count |-> IF written THEN Len(found) ELSE 0,
                          error_count |-> Len(lines) - Len(found),
                          data |-> data]
    /\ UNCHANGED <<os, sup>>
    /\ UNCHANGED <<scanVars, connVars, conn, trafVars>>

(***************************************************************************)
(* SystemProxyService, as built for Linux (gsettings)                      *)
(***************************************************************************)
LOCALHOST == "127.0.0.1"

\* configure_linux: the five gsettings commands, in the order they run
GsettingsCommand(o, i) ==
    CASE i = 1 -> [o EXCEPT !.mode = "manual"]
      [] i = 2 -> [o EXCEPT !.http_host = LOCALHOST]
      [] i = 3 -> [o EXCEPT !.http_port = HTTP_PROXY_PORT]
      [] i = 4 -> [o EXCEPT !.https_host = LOCALHOST]
      [] i = 5 -> [o EXCEPT !.https_port = HTTP_PROXY_PORT]

\* configure_linux: the commands before the one that fails have run
\* (failAt = 0: none fails)
RECURSIVE RunCommands(_, _, _)
RunCommands(o, i, failAt) ==
    IF i > 5 \/ i = failAt THEN o
    ELSE RunCommands(GsettingsCommand(o, i), i + 1, failAt)

ConfigureLinux(failAt) ==
    [success |-> failAt = 0, service_name |-> "gsettings",
     os |-> RunCommands(os, 1, failAt)]

\* unconfigure_linux: the one command that sets the mode to none
UnconfigureLinux(cmdOk) ==
    [success |-> cmdOk,
     os |-> IF cmdOk THEN [os EXCEPT !.mode = "none"] ELSE os]

\* configure(): the platform's commands, then on success the save of
\* "systemProxy" and "systemProxyServiceName", its error dropped
Configure(failAt, written) ==
    LET result == ConfigureLinux(failAt) IN
    /\ os' = result.os
    /\ IF result.success
         THEN SettingsSave([systemProxy |-> JBool(TRUE),
                            systemProxyServiceName |->
                                JStr(result.service_name)],
                           written)
         ELSE UNCHANGED <<settings, disk>>
    /\ call' = [op |-> "configure", ok |-> result.success,
                before |-> os,
                flag |-> settings.system_proxy_enabled_by_app]
    /\ UNCHANGED sup
    /\ UNCHANGED <<scanVars, connVars, conn, trafVars>>

\* unconfigure(): skipped when the settings say the proxy was not set by the
\* application (the field read there, system_proxy, is not one of Settings
\* in settings.rs: what is read is an input); else the platform's command
\* and on success the save of "systemProxy" and "systemProxyServiceName"
UnconfigureCall(system_proxy, cmdOk, written) ==
    LET follows == call.op = "configure" /\ call.ok
        before == IF follows THEN call.before ELSE os
        flag == IF follows THEN call.flag
                ELSE settings.system_proxy_enabled_by_app
    IN
    /\ IF ~system_proxy
         THEN /\ call' = [op |-> "unconfigure", ok |-> FALSE, skipped |-> TRUE,
                          follows |-> follows, before |-> before,
                          flag |-> flag]
              /\ UNCHANGED <<settings, disk, os>>
         ELSE LET result == UnconfigureLinux(cmdOk) IN
              /\ os' = result.os
              /\ IF result.success
                   THEN SettingsSave([systemProxy |-> JBool(FALSE),
                                      systemProxyServiceName |-> JStr("")],
                                     written)
                   ELSE UNCHANGED <<settings, disk>>
              /\ call' = [op |-> "unconfigure", ok |-> result.success,
                          skipped |-> FALSE, follows |-> follows,
                          before |-> before, flag |-> flag]

\* the unconfigure_system_proxy command
Unconfigure(system_proxy, cmdOk, written) ==
    /\ UnconfigureCall(system_proxy, cmdOk, written)
    /\ UNCHANGED sup
    /\ UNCHANGED <<scanVars, connVars, conn, trafVars>>

(***************************************************************************)
(* The settings commands and the system proxy, called in any order         *)
(***************************************************************************)
\* a configuration as the settings hold it
Config(id, remark, country) ==
    [id |-> id, remark |-> remark, domain |-> "d.example",
     country |-> country, socks |-> None]

\* what the front end sends to save_settings
SavePatches ==
    {[authoritative |-> JBool(b)] : b \in BOOLEAN}
      \cup {[systemProxyEnabledByApp |-> JBool(b)] : b \in BOOLEAN}
      \cup {[configs |-> JArr(<<>>)]}

\* what the front end hands to import_configs
ImportData ==
    {<<>>, Text(<<"a">>),
     ExportText(<<Config(1, Text(<<"a">>), Some("US"))>>)}

ImportSample(data, written) ==
    /\ Len(settings.configs) < MaxConfigs
    /\ ImportConfigs(data, written)

SettingsNext ==
    \/ \E patch \in SavePatches, written \in BOOLEAN : Save(patch, written)
    \/ \E data \in ImportData, written \in BOOLEAN : ImportSample(data, written)
    \/ ExportConfigs
    \/ \E failAt \in 0..5, written \in BOOLEAN : Configure(failAt, written)
    \/ \E system_proxy \in BOOLEAN, cmdOk \in BOOLEAN, written \in BOOLEAN :
          Unconfigure(system_proxy, cmdOk, written)

SettingsSpec == Init /\ [][SettingsNext]_vars

(***************************************************************************)
(* Startup: AppState::initialize loads settings.json, clears the ports and *)
(* spawns the recovery task; the front end's commands come after it.       *)
(***************************************************************************)
\* the OS proxy settings a run that configured the proxy leaves behind
OsConfigured == RunCommands(OsUntouched, 1, 0)

\* the settings.json files the previous run may have left
SettingsFiles ==
    {[DefaultSettings EXCEPT !.system_proxy_enabled_by_app = flag,
                             !.system_proxy_service_name = name] :
        flag \in BOOLEAN, name \in {"", "gsettings"}}

\* the task that runs the startup recovery
RecoveryTask == 2

\* AppState::new, before initialize
RecoveryInit ==
    /\ ScanInit /\ ConnInit /\ NetInit
    /\ settings = DefaultSettings
    /\ disk \in SettingsFiles
    /\ os \in {OsUntouched, OsConfigured}
    /\ call = [op |-> "request"]
    /\ sup = NoOutput

\* AppState::initialize: settings.initialize (load), kill_ports, and the
\* recovery task spawned when settings.system_proxy is read as true (a field
\* Settings does not declare: what is read is an input)
Initialize(system_proxy) ==
    /\ call.op = "request"
    /\ settings' = disk
    /\ killedPorts' = CLEANUP_PORTS
    /\ pc' = [pc EXCEPT ![RecoveryTask] =
                 IF system_proxy THEN "r_chk" ELSE "idle"]
    /\ call' = [op |-> "initialize", spawned |-> system_proxy,
                flag |-> disk.system_proxy_enabled_by_app]
    /\ UNCHANGED <<state, cfg, ret, from, myChild, child, procs, nStarts,
                   nStops, running, abort, loops, sig, nLoops, monitors,
                   sysProxy, hist, extFail, emitVars, cleaning>>
    /\ UNCHANGED <<disk, os, sup>>
    /\ UNCHANGED <<scanVars, conn, trafVars>>

\* the recovery task: ConnectionService::cleanup, which calls stop() when
\* is_running() and else returns
RecoveryCheck(c) ==
    /\ pc[c] = "r_chk"
    /\ pc' = [pc EXCEPT ![c] = IF IsRunning(state) THEN "c_stop" ELSE "idle"]
    /\ UNCHANGED <<state, cfg, ret, from, myChild, child, procs, nStarts,
                   nStops, running, abort, loops, sig, nLoops, monitors,
                   sysProxy, hist, extFail, emitVars, exitVars>>
    /\ UNCHANGED <<scanVars, netVars>>

\* stop, step 1, with what unconfigure() does to the settings and the OS
RecoveryUnconfigure(c, system_proxy, cmdOk, written) ==
    /\ pc[c] = "t_unconf"
    /\ UnconfigureCall(system_proxy, cmdOk, written)
    /\ sysProxy' = IF system_proxy /\ cmdOk THEN FALSE ELSE sysProxy
    /\ pc' = [pc EXCEPT ![c] = AfterUnconfigure(system_proxy /\ cmdOk)]
    /\ UNCHANGED <<state, cfg, ret, from, myChild, child, procs, nStarts,
                   nStops, running, abort, loops, sig, nLoops, monitors, hist,
                   extFail, emitVars, exitVars>>
    /\ UNCHANGED sup
    /\ UNCHANGED <<scanVars, conn, trafVars>>

\* start_service invoked by the front end, without the system proxy
RecoveryStart(c) == call.op # "request" /\ StartBegin(c, FALSE)

\* the steps of start() without the system proxy and of the stop() the
\* recovery task may call
RecoverySteps(c) ==
    \/ StartResolve(c, FALSE, TRUE)
    \/ PMStartSpawn(c, TRUE)
    \/ PMStartReady(c)
    \/ StartHttpProxy(c)
    \/ StartSocksForwardProxy(c)
    \/ StartFinish(c)
    \/ EmitRead(c)
    \/ EmitSend(c)
    \/ RecoveryCheck(c)
    \/ CleanupStop(c)
    \/ \E system_proxy \in BOOLEAN, cmdOk \in BOOLEAN, written \in BOOLEAN :
          RecoveryUnconfigure(c, system_proxy, cmdOk, written)
    \/ StopAll(c)
    \/ PMStop(c)
    \/ StopFinish(c)

RecoveryNext ==
    \/ \E system_proxy \in BOOLEAN : Initialize(system_proxy)
    \/ \E c \in SeqCallers : RecoveryStart(c)
    \/ \E c \in Callers : RecoverySteps(c)
    \/ ConcTasks

\* the runtime schedules every spawned task and every call in flight; the
\* front end need not invoke a command
RecoveryFair ==
    /\ WF_vars(\E system_proxy \in BOOLEAN : Initialize(system_proxy))
    /\ \A c \in Callers : WF_vars(RecoverySteps(c))
    /\ WF_vars(ConcTasks)

RecoverySpec == RecoveryInit /\ [][RecoveryNext]_vars

RecoveryFairSpec == RecoveryInit /\ [][RecoveryNext]_vars /\ RecoveryFair

(***************************************************************************)
(* Export of the saved configurations and import of what was exported      *)
(***************************************************************************)
\* characters a remark is made of: a letter, the slash, the line feed
RemarkChars == {Ch("a"), Ch("/"), LF}

Remarks == UNION {[1..n -> RemarkChars] : n \in 0..MaxRemark}

Countries == {None, Some("US")}

\* the lists of at most so many configurations settings.json may hold when
\* it is loaded
ConfigLists(most) ==
    UNION {{[i \in 1..n |-> Config(i, remarks[i], countries[i])] :
               remarks \in [1..n -> Remarks], countries \in [1..n -> Countries]} :
           n \in 0..most}

\* load(): the settings read from settings.json
ConfigsInit ==
    /\ ScanInit /\ ConnInit /\ NetInit
    /\ settings \in {[DefaultSettings EXCEPT !.configs = cs] : cs \in ConfigLists(MaxConfigs)}
    /\ disk = settings
    /\ os = OsUntouched /\ call = NoCall /\ sup = NoOutput

\* import_configs called with the text export_configs returned
ImportExported ==
    /\ call.op = "export"
    /\ Len(settings.configs) <= MaxConfigs
    /\ ImportConfigs(call.out, TRUE)

ConfigsNext == ExportConfigs \/ ImportExported

ConfigsSpec == ConfigsInit /\ [][ConfigsNext]_vars

(***************************************************************************)
(* set_resolvers and the validation of a resolver                          *)
(***************************************************************************)
DIGITS == <<"0", "1", "2", "3", "4", "5", "6", "7", "8", "9">>

IsDigit(c) == \E d \in 1..10 : c = Ch(DIGITS[d])

DigitValue(c) == (CHOOSE d \in 1..10 : c = Ch(DIGITS[d])) - 1

\* the number a text of digits denotes
RECURSIVE Decimal(_)
Decimal(t) ==
    IF t = <<>> THEN 0
    ELSE 10 * Decimal(SubSeq(t, 1, Len(t) - 1)) + DigitValue(t[Len(t)])

\* str::parse::<u8>() and ::<u16>(): an optional '+', then one digit at
\* least and digits only, the number not above the type's maximum; -1 for Err
ParseUnsigned(t, max) ==
    LET digits == IF t # <<>> /\ Head(t) = Ch("+") THEN Tail(t) ELSE t IN
    IF digits = <<>> \/ \E i \in 1..Len(digits) : ~IsDigit(digits[i]) THEN -1
    ELSE IF Decimal(digits) > max THEN -1
    ELSE Decimal(digits)

U8_MAX == 255

U16_MAX == 65535

\* validate_resolver
ValidateResolver(resolver) ==
    LET parts == Split(resolver, Ch(":")) IN
    IF Len(parts) # 2 THEN FALSE
    ELSE LET ip_parts == Split(parts[1], Ch(".")) IN
         IF Len(ip_parts) # 4 THEN FALSE
         ELSE IF \E i \in 1..4 : ParseUnsigned(ip_parts[i], U8_MAX) = -1 THEN FALSE
         ELSE ParseUnsigned(parts[2], U16_MAX) > 0

\* the payloads the front end may send: resolvers put together from these
\* octets and ports, one octet of each varying, alone or next to another entry
OctetTexts ==
    {Text(<<"0">>), Text(<<"1">>), Text(<<"2", "5", "5">>),
     Text(<<"2", "5", "6">>), Text(<<"+", "1">>), Text(<<"a">>), <<>>}

PortTexts ==
    {Text(<<"5", "3">>), Text(<<"0">>), Text(<<"1">>),
     Text(<<"6", "5", "5", "3", "5">>), Text(<<"6", "5", "5", "3", "6">>),
     Text(<<"+", "5", "3">>), Text(<<"5", "3", ":", "1">>), <<>>}

ResolverTexts ==
    {Join([i \in 1..n |-> IF i = at THEN o ELSE Text(<<"1">>)], Ch("."))
        \o tail :
        n \in 3..5, at \in {1, 4}, o \in OctetTexts,
        tail \in {<<>>} \cup {<<Ch(":")>> \o port : port \in PortTexts}}

GoodResolver == Text(<<"8", ".", "8", ".", "8", ".", "8", ":", "5", "3">>)

BadResolver == Text(<<"8", ".", "8", ".", "8", ".", "8">>)

ResolverLists ==
    {<<>>} \cup {<<r>> : r \in ResolverTexts}
      \cup {<<r, s>> : r \in ResolverTexts, s \in {GoodResolver, BadResolver}}
      \cup {<<s, r>> : r \in ResolverTexts, s \in {GoodResolver, BadResolver}}

\* the settings as loaded, and a set_resolvers request on its way
ResolverInit ==
    /\ ScanInit /\ ConnInit /\ NetInit
    /\ settings \in {[DefaultSettings EXCEPT !.resolvers = rs] :
                        rs \in {<<>>, <<GoodResolver>>}}
    /\ disk = settings
    /\ os = OsUntouched /\ sup = NoOutput
    /\ call \in {[op |-> "request", resolvers |-> l] : l \in ResolverLists}

\* the set_resolvers command
SetResolvers(written) ==
    /\ call.op = "request"
    /\ IF call.resolvers = <<>>
         THEN /\ call' = [op |-> "set_resolvers", result |-> "rejected"]
              /\ UNCHANGED <<settings, disk>>
         ELSE IF \E i \in 1..Len(call.resolvers) :
                    ~ValidateResolver(call.resolvers[i])
         THEN /\ call' = [op |-> "set_resolvers", result |-> "rejected"]
              /\ UNCHANGED <<settings, disk>>
         ELSE /\ SettingsSave(
                    [resolvers |->
                        JArr([i \in DOMAIN call.resolvers |->
                                 JStr(call.resolvers[i])])],
                    written)
              /\ call' = [op |-> "set_resolvers",
                          result |-> IF written THEN "success" ELSE "error"]
    /\ UNCHANGED <<os, sup>>
    /\ UNCHANGED <<scanVars, connVars, conn, trafVars>>

ResolverNext == \E written \in BOOLEAN : SetResolvers(written)

ResolverSpec == ResolverInit /\ [][ResolverNext]_vars

(***************************************************************************)
(* compare_versions                                                        *)
(***************************************************************************)
\* str::trim_start_matches(c): every leading c removed
TrimStartMatches_Keep(t, c) == t

RECURSIVE TrimStartMatches(_, _)
TrimStartMatches(t, c) ==
    IF t # <<>> /\ Head(t) = c THEN TrimStartMatches(Tail(t), c) ELSE t

\* chars().take_while(is_ascii_digit): the digits a component begins with
RECURSIVE NumericPrefix(_)
NumericPrefix(t) ==
    IF t # <<>> /\ IsDigit(Head(t)) THEN <<Head(t)>> \o NumericPrefix(Tail(t))
    ELSE <<>>

\* Iterator::take(n)
Take(ts, n) == SubSeq(ts, 1, IF Len(ts) < n THEN Len(ts) ELSE n)

\* filter_map(parse().ok()): the numbers of the components that begin with a
\* digit; a component that does not is left out (the components drawn stay
\* far below u32::MAX)
RECURSIVE FilterMapParse(_)
FilterMapParse(ts) ==
    IF ts = <<>> THEN <<>>
    ELSE (IF NumericPrefix(Head(ts)) = <<>> THEN <<>>
          ELSE <<Decimal(NumericPrefix(Head(ts)))>>)
         \o FilterMapParse(Tail(ts))

\* parse_version
ParseVersion(v) ==
    FilterMapParse(Take(Split(TrimStartMatches(v, Ch("v")), Ch(".")), 3))

\* parts.get(i).copied().unwrap_or(0)
GetOr0(parts, i) == IF i <= Len(parts) THEN parts[i] ELSE 0

\* the loop of compare_versions from component i on
RECURSIVE CompareFrom(_, _, _)
CompareFrom(parts1, parts2, i) ==
    IF i > 3 THEN 0
    ELSE IF GetOr0(parts1, i) > GetOr0(parts2, i) THEN 1
    ELSE IF GetOr0(parts1, i) < GetOr0(parts2, i) THEN -1
    ELSE CompareFrom(parts1, parts2, i + 1)

\* compare_versions
CompareVersions(v1, v2) == CompareFrom(ParseVersion(v1), ParseVersion(v2), 1)

\* the version strings compared: components with dots between them
ComponentTexts ==
    {Text(<<"0">>), Text(<<"9">>), Text(<<"1", "0">>), Text(<<"a">>)}

VersionTexts(parts) ==
    UNION {{Join(comps, Ch(".")) : comps \in [1..n -> ComponentTexts]} :
           n \in 1..parts}

\* the tag of a release: a version with or without a leading 'v'
TagTexts ==
    VersionTexts(MaxParts)
      \cup {Text(<<"v">>) \o v : v \in VersionTexts(MaxParts)}

\* two versions to compare
VersionInit ==
    /\ ScanInit /\ ConnInit /\ NetInit
    /\ settings = DefaultSettings /\ disk = DefaultSettings
    /\ os = OsUntouched /\ sup = NoOutput
    /\ call \in {[op |-> "request", a |-> a, b |-> b] :
                    a \in TagTexts, b \in VersionTexts(3)}

\* the two versions compared, each way round and the first with itself
Compare ==
    /\ call.op = "request"
    /\ call' = [op |-> "compare_versions", a |-> call.a, b |-> call.b,
                ab |-> CompareVersions(call.a, call.b),
                ba |-> CompareVersions(call.b, call.a),
                aa |-> CompareVersions(call.a, call.a)]
    /\ UNCHANGED <<settings, disk, os, sup>>
    /\ UNCHANGED <<scanVars, connVars, conn, trafVars>>

VersionNext == Compare

VersionSpec == VersionInit /\ [][VersionNext]_vars

(***************************************************************************)
(* test_slipstream                                                         *)
(***************************************************************************)
TOTAL_QUERIES == 15

MIN_SUCCESSFUL == 13

AVG_LIMIT == 1000

MAX_LIMIT == 3000

STD_LIMIT == 500

\* the outcome of a query that is not answered (time-out or network error)
Failed == -1

\* the ways to write a number as the sum of k numbers
RECURSIVE Compositions(_, _)
Compositions(whole, k) ==
    IF k = 1 THEN {<<whole>>}
    ELSE UNION {{<<first>> \o rest : rest \in Compositions(whole - first, k - 1)} :
                first \in 0..whole}

\* what a query may meet: no answer, or an answer after so many milliseconds
Outcomes == <<Failed, 0, 500, 990, 1000, 3000>>

RECURSIVE Repeat(_, _)
Repeat(x, n) == IF n = 0 THEN <<>> ELSE <<x>> \o Repeat(x, n - 1)

RECURSIVE Spread(_, _)
Spread(counts, i) ==
    IF i > Len(counts) THEN <<>>
    ELSE Repeat(Outcomes[i], counts[i]) \o Spread(counts, i + 1)

\* the outcomes of the fifteen queries, the slower ones later
QueryRuns ==
    {Spread(counts, 1) : counts \in Compositions(TOTAL_QUERIES, Len(Outcomes))}

\* the loop over the queries: response_times
RECURSIVE ResponseTimes(_)
ResponseTimes(run) ==
    IF run = <<>> THEN <<>>
    ELSE (IF Head(run) = Failed THEN <<>> ELSE <<Head(run)>>)
         \o ResponseTimes(Tail(run))

\* iter().sum()
RECURSIVE Sum(_)
Sum(xs) == IF xs = <<>> THEN 0 ELSE Head(xs) + Sum(Tail(xs))

\* avg_time < limit, avg_time being sum / len
AvgBelow(times, limit) == Sum(times) < limit * Len(times)

\* fold(NaN, f64::max)
RECURSIVE MaxTime(_)
MaxTime(xs) ==
    IF Len(xs) = 1 THEN xs[1]
    ELSE LET rest == MaxTime(Tail(xs)) IN
         IF Head(xs) > rest THEN Head(xs) ELSE rest

\* std_dev < limit, std_dev being 0 for one time and else the root of
\* sum((t - avg)^2) / (len - 1); computed on the times in units of 10 ms and
\* with both sides multiplied by len^2 * (len - 1) and squared
StdDevBelow_Population(times, limit) ==
    LET n == Len(times)
        u == [i \in 1..n |-> times[i] \div 10]
        S == Sum(u)
    IN IF n <= 1 THEN 0 < limit
       ELSE Sum([i \in 1..n |-> (n * u[i] - S) * (n * u[i] - S)])
              < (limit \div 10) * (limit \div 10) * n * n * n

StdDevBelow(times, limit) ==
    LET n == Len(times)
        u == [i \in 1..n |-> times[i] \div 10]
        S == Sum(u)
    IN IF n <= 1 THEN 0 < limit
       ELSE Sum([i \in 1..n |-> (n * u[i] - S) * (n * u[i] - S)])
              < (limit \div 10) * (limit \div 10) * n * n * (n - 1)

\* test_slipstream, the server's address being valid
TestSlipstream(run) ==
    LET response_times == ResponseTimes(run)
        successful == Len(response_times)
    IN IF response_times = <<>>
         THEN [passes_all |-> FALSE, score |-> 0, successful |-> 0]
         ELSE LET passes_all ==
                      /\ successful >= MIN_SUCCESSFUL
                      /\ AvgBelow(response_times, AVG_LIMIT)
                      /\ MaxTime(response_times) < MAX_LIMIT
                      /\ StdDevBelow(response_times, STD_LIMIT)
              IN [passes_all |-> passes_all,
                  score |-> IF passes_all THEN 3 ELSE 0,
                  successful |-> successful]

\* a server about to be probed, with what its queries will meet
SlipstreamInit ==
    /\ ScanInit /\ ConnInit /\ NetInit
    /\ settings = DefaultSettings /\ disk = DefaultSettings
    /\ os = OsUntouched /\ sup = NoOutput
    /\ call \in {[op |-> "request", run |-> run] : run \in QueryRuns}

\* the worker's probe in slipstream mode: the DnsScanResult it builds
ProbeSlipstream ==
    /\ call.op = "request"
    /\ LET r == TestSlipstream(call.run) IN
       call' = [op |-> "test_slipstream", run |-> call.run,
                is_compatible |-> r.passes_all, score |-> r.score,
                max_score |-> 3]
    /\ UNCHANGED <<settings, disk, os, sup>>
    /\ UNCHANGED <<scanVars, connVars, conn, trafVars>>

SlipstreamNext == ProbeSlipstream

SlipstreamSpec == SlipstreamInit /\ [][SlipstreamNext]_vars

(***************************************************************************)
(* The readers of the child's standard output and standard error           *)
(***************************************************************************)
\* lines the child may write, after strip_unsupported
ChildLines ==
    {"bind: Address already in use", "listen EADDRINUSE :::5201", "connected"}

\* contains("Address already in use") || contains("EADDRINUSE")
PortConflict(line) ==
    line \in {"bind: Address already in use", "listen EADDRINUSE :::5201"}

\* the stdout reader takes a line: sent on the channel, emitted as stream-log
StdoutLine(line) ==
    /\ Len(sup.events) < MaxLines
    /\ sup' = [sup EXCEPT
                 !.events = Append(@, [name |-> "stream-log", data |-> line])]
    /\ UNCHANGED <<settings, disk, os, call>>
    /\ UNCHANGED <<scanVars, connVars, conn, trafVars>>

\* the stderr reader takes a line: logged, for a port conflict a warning is
\* logged too, sent on the channel, emitted as stream-error
StderrLine(line) ==
    /\ Len(sup.events) < MaxLines
    /\ sup' = [sup EXCEPT
                 !.events = Append(@, [name |-> "stream-error", data |-> line])]
    /\ UNCHANGED <<settings, disk, os, call>>
    /\ UNCHANGED <<scanVars, connVars, conn, trafVars>>

SupervisorNext ==
    \/ \E line \in ChildLines : StdoutLine(line)
    \/ \E line \in ChildLines : StderrLine(line)

SupervisorSpec == Init /\ [][SupervisorNext]_vars

(***************************************************************************)
(* The argument list ConnectionService::start hands to the supervisor      *)
(***************************************************************************)
ResolverNames == {"1.1.1.1:53", "8.8.8.8:53"}

\* the configurations start() may be given
StartConfigs ==
    [resolvers : UNION {[1..n -> ResolverNames] : n \in 0..MaxResolvers},
     domain : {"example.com"},
     authoritative : BOOLEAN,
     custom_dns_enabled : BOOLEAN,
     keep_alive_interval : {None, Some(0), Some(30)},
     congestion_control : {None, Some("auto"), Some("bbr")}]

\* the address DnsResolutionService::resolve answers with
RESOLVED_IP == "93.184.216.34"

\* the loop over config.resolvers
RECURSIVE ResolverArgs(_, _)
ResolverArgs(resolvers, authoritative) ==
    IF resolvers = <<>> THEN <<>>
    ELSE <<IF authoritative THEN "--authoritative" ELSE "--resolver",
           Head(resolvers)>>
         \o ResolverArgs(Tail(resolvers), authoritative)

\* if let Some(itv) = config.keep_alive_interval
KeepAliveArgs(config) ==
    IF config.keep_alive_interval.some
      THEN <<"--keep-alive-interval", ToString(config.keep_alive_interval.v[1])>>
      ELSE <<>>

\* if let Some(ref cc) = config.congestion_control, if cc != "auto"
CongestionArgs_Always(config) ==
    IF config.congestion_control.some
      THEN <<"--congestion-control", config.congestion_control.v[1]>>
      ELSE <<>>

CongestionArgs(config) ==
    IF config.congestion_control.some /\ config.congestion_control.v[1] # "auto"
      THEN <<"--congestion-control", config.congestion_control.v[1]>>
      ELSE <<>>

\* args, as pushed
BuildArgs(config, target_domain) ==
    ResolverArgs(config.resolvers, config.authoritative)
      \o <<"--domain", target_domain>>
      \o KeepAliveArgs(config)
      \o CongestionArgs(config)

\* a start() about to resolve the domain and spawn the child
ArgsInit ==
    /\ ScanInit /\ ConnInit /\ NetInit
    /\ settings = DefaultSettings /\ disk = DefaultSettings
    /\ os = OsUntouched /\ sup = NoOutput
    /\ call \in {[op |-> "request", config |-> config] : config \in StartConfigs}

\* start(): steps 1 and 2, the domain resolved if custom DNS is enabled and
\* the supervisor started with the arguments
StartArgs(resolved) ==
    /\ call.op = "request"
    /\ LET config == call.config IN
       IF config.custom_dns_enabled /\ config.resolvers # <<>>
         THEN IF resolved
                THEN call' = [op |-> "start", config |-> config, spawned |-> TRUE,
                              args |-> BuildArgs(config, RESOLVED_IP)]
                ELSE call' = [op |-> "start", config |-> config,
                              spawned |-> FALSE, args |-> <<>>]
         ELSE call' = [op |-> "start", config |-> config, spawned |-> TRUE,
                       args |-> BuildArgs(config, config.domain)]
    /\ UNCHANGED <<settings, disk, os, sup>>
    /\ UNCHANGED <<scanVars, connVars, conn, trafVars>>

ArgsNext == \E resolved \in BOOLEAN : StartArgs(resolved)

ArgsSpec == ArgsInit /\ [][ArgsNext]_vars

(***************************************************************************)
(* handle_socks_bridge_connection: one connection of the SOCKS5 front,     *)
(* step by step.  call holds the handler's position, its 1024-byte buffer  *)
(* (the bytes written to it; the cells behind them are zero), what it has  *)
(* written to the client and to the local HTTP proxy, and what it read.    *)
(***************************************************************************)
\* the replies of the front: "no authentication", success, failure
NO_AUTH == <<5, 0>>

REPLY_SUCCESS == <<5, 0, 0, 1, 0, 0, 0, 0, 0, 0>>

REPLY_FAILURE == <<5, 1, 0, 1, 0, 0, 0, 0, 0, 0>>

\* no CONNECT request has been written to the HTTP proxy
NoTarget == [kind |-> "none", host |-> <<>>, port |-> 0]

\* greetings a client sends: version 5 with one method, version 4, one byte
Greetings == {<<5, 1, 0>>, <<4, 1, 0>>, <<5>>}

\* requests a client sends: CONNECT to 10.0.0.7:443, CONNECT to the domain
\* name of the bytes 97 98 at port 80, CONNECT to an IPv6 address, BIND
BridgeRequests ==
    {<<5, 1, 0, 1, 10, 0, 0, 7, 1, 187>>,
     <<5, 1, 0, 3, 2, 97, 98, 0, 80>>,
     <<5, 1, 0, 4, 0, 0, 0, 0, 0, 0>>,
     <<5, 2, 0, 1, 10, 0, 0, 7, 1, 187>>}

\* what the HTTP proxy answers, in words: read whole, read in part, or the
\* end of the stream (read returned 0)
Responses ==
    {<<"HTTP/1.1", " ", "200", " ", "OK">>,
     <<"HTTP/1.0", " ", "200", " ", "Connection", " ", "established">>,
     <<"HTTP/1.1", " ", "502", " ", "Bad", " ", "Gateway">>,
     <<"HTTP/1.0", " ", "200", " ", "OK">>,
     <<"HTTP/1.1", " ">>,
     <<>>}

\* how many bytes of a request one read() returns
ReadLengths == 1..10

\* the handler called with an accepted stream
BridgeCall ==
    [op |-> "bridge", at |-> "greeting", buf |-> <<>>, request |-> <<>>,
     target |-> NoTarget, client_out |-> <<>>, connect |-> NoTarget,
     response |-> <<>>, read |-> FALSE, spliced |-> FALSE]

\* stream.read(&mut buf) returned n bytes of msg: they overwrite the first n
\* cells of the buffer
ReadInto(buf, msg, n) ==
    SubSeq(msg, 1, n) \o SubSeq(buf, n + 1, Len(buf))

\* buf[i], counted from 0 as in the code
Cell(buf, i) == IF i + 1 <= Len(buf) THEN buf[i + 1] ELSE 0

\* the target parsed from the buffer: IPv4 from buf[4..8], a domain name of
\* buf[4] bytes from buf[5..], then the port in two bytes, big-endian
ParseTarget(buf, n) ==
    LET len == Cell(buf, 4)
        off == IF Cell(buf, 3) = 1 THEN 8 ELSE 5 + len
    IN  [kind |-> IF Cell(buf, 3) = 1 THEN "ipv4" ELSE "domain",
         host |-> IF Cell(buf, 3) = 1
                    THEN [i \in 1..4 |-> Cell(buf, 3 + i)]
                    ELSE [i \in 1..len |-> Cell(buf, 4 + i)],
         port |-> 256 * Cell(buf, off) + Cell(buf, off + 1)]

\* response.contains("200 Connection established") ||
\* response.contains("HTTP/1.1 200")
Established(response) ==
    \/ Find(response, <<"200", " ", "Connection", " ", "established">>) # 0
    \/ Find(response, <<"HTTP/1.1", " ", "200">>) # 0

\* the handler goes on with these fields changed
BridgeTo(next) ==
    /\ call' = next
    /\ UNCHANGED <<settings, disk, os, sup>>
    /\ UNCHANGED <<scanVars, connVars, conn, trafVars>>

\* step 1: read the greeting; n < 2 or a version other than 5 is an error
Socks5Greeting(msg, ok) ==
    /\ call.op = "bridge" /\ call.at = "greeting"
    /\ LET n == Len(msg)
           buf == ReadInto(call.buf, msg, n) IN
         BridgeTo([call EXCEPT
            !.buf = IF ok THEN buf ELSE @,
            !.at = IF ~ok THEN "read_error"
                   ELSE IF n < 2 \/ Cell(buf, 0) # 5 THEN "invalid_greeting"
                   ELSE "no_auth"])

\* step 2: answer "no authentication"
Socks5NoAuth(ok) ==
    /\ call.op = "bridge" /\ call.at = "no_auth"
    /\ BridgeTo([call EXCEPT
          !.client_out = IF ok THEN Append(@, NO_AUTH) ELSE @,
          !.at = IF ok THEN "request" ELSE "write_error"])

\* step 3: read the request (n bytes of it arrive in this read) and parse
\* the target
Socks5Request(msg, n, ok) ==
    /\ call.op = "bridge" /\ call.at = "request"
    /\ n <= Len(msg)
    /\ LET buf == ReadInto(call.buf, msg, n) IN
         BridgeTo([call EXCEPT
            !.request = msg,
            !.buf = IF ok THEN buf ELSE @,
            !.target = IF ok /\ n >= 7 /\ Cell(buf, 0) = 5 /\ Cell(buf, 1) = 1
                          /\ Cell(buf, 3) \in {1, 3}
                         THEN ParseTarget(buf, n) ELSE @,
            !.at = IF ~ok THEN "read_error"
                   ELSE IF n < 7 \/ Cell(buf, 0) # 5 \/ Cell(buf, 1) # 1
                     THEN "invalid_request"
                   ELSE IF Cell(buf, 3) \notin {1, 3} THEN "unsupported_atyp"
                   ELSE "connect"])

\* step 4: connect to the local HTTP proxy
Socks5Connect(ok) ==
    /\ call.op = "bridge" /\ call.at = "connect"
    /\ BridgeTo([call EXCEPT !.at = IF ok THEN "send" ELSE "connect_failed"])

\* step 5: write the CONNECT request for the parsed host and port
Socks5SendConnect(ok) ==
    /\ call.op = "bridge" /\ call.at = "send"
    /\ BridgeTo([call EXCEPT
          !.connect = IF ok THEN call.target ELSE @,
          !.at = IF ok THEN "response" ELSE "write_error"])

\* step 6: read the HTTP proxy's response
Socks5ReadResponse(response, ok) ==
    /\ call.op = "bridge" /\ call.at = "response"
    /\ BridgeTo([call EXCEPT
          !.response = IF ok THEN response ELSE @,
          !.read = ok,
          !.at = IF ~ok THEN "read_error"
                 ELSE IF Established(response) THEN "reply_success"
                 ELSE "reply_failure"])

\* the response is a success: reply success to the SOCKS client
Socks5ReplySuccess(ok) ==
    /\ call.op = "bridge" /\ call.at = "reply_success"
    /\ BridgeTo([call EXCEPT
          !.client_out = IF ok THEN Append(@, REPLY_SUCCESS) ELSE @,
          !.at = IF ok THEN "splice" ELSE "write_error"])

\* step 7: the two copy loops run to their end
Socks5Splice ==
    /\ call.op = "bridge" /\ call.at = "splice"
    /\ BridgeTo([call EXCEPT !.spliced = TRUE, !.at = "closed"])

\* the response is no success: reply failure (the write's result is dropped)
Socks5ReplyFailure(ok) ==
    /\ call.op = "bridge" /\ call.at = "reply_failure"
    /\ BridgeTo([call EXCEPT
          !.client_out = IF ok THEN Append(@, REPLY_FAILURE) ELSE @,
          !.at = IF ok THEN "rejected" ELSE "rejected_unsent"])

BridgeInit ==
    /\ ScanInit /\ ConnInit /\ NetInit
    /\ settings = DefaultSettings /\ disk = DefaultSettings
    /\ os = OsUntouched /\ sup = NoOutput
    /\ call = BridgeCall

BridgeNext ==
    \/ \E msg \in Greetings, ok \in BOOLEAN : Socks5Greeting(msg, ok)
    \/ \E ok \in BOOLEAN : Socks5NoAuth(ok)
    \/ \E msg \in BridgeRequests, n \in ReadLengths, ok \in BOOLEAN :
          Socks5Request(msg, n, ok)
    \/ \E ok \in BOOLEAN : Socks5Connect(ok)
    \/ \E ok \in BOOLEAN : Socks5SendConnect(ok)
    \/ \E response \in Responses, ok \in BOOLEAN : Socks5ReadResponse(response, ok)
    \/ \E ok \in BOOLEAN : Socks5ReplySuccess(ok)
    \/ Socks5Splice
    \/ \E ok \in BOOLEAN : Socks5ReplyFailure(ok)

BridgeSpec == BridgeInit /\ [][BridgeNext]_vars

(***************************************************************************)
(* save() called once with a patch, on settings that differ from the       *)
(* defaults in every field a patch of this model can change.               *)
(***************************************************************************)
\* the values a patch gives to a key: of each JSON type
PatchValues ==
    {JNull, JBool(TRUE), JBool(FALSE), JNum(7), JStr(""), JStr("id-1"),
     JArr(<<>>), JArr(<<JStr("1.1.1.1:53"), JNum(53)>>),
     JArr(<<JObj(Config(1, Text(<<"a">>), None))>>),
     JArr(<<JObj(Config(1, Text(<<"a">>), None)), JNull>>)}

\* the keys of a patch: keys save() knows, the key "systemProxy" that
\* configure() sends, and a key in snake case
PatchKeys ==
    {"resolvers", "authoritative", "systemProxyEnabledByApp",
     "systemProxyServiceName", "configs", "selectedConfigId",
     "systemProxy", "selected_config_id"}

\* the patches: an object with one key, or with two keys
Patches ==
    {[k \in {key} |-> value] : key \in PatchKeys, value \in PatchValues}
      \cup {[k \in {"authoritative", key} |->
                IF k = key THEN value ELSE JBool(TRUE)] :
              key \in PatchKeys \ {"authoritative"}, value \in PatchValues}

\* settings a user has changed
ChangedSettings ==
    [resolvers |-> <<"8.8.8.8:53">>,
     authoritative |-> TRUE,
     system_proxy_enabled_by_app |-> TRUE,
     system_proxy_service_name |-> "Wi-Fi",
     configs |-> <<Config(2, Text(<<"b">>), None)>>,
     selected_config_id |-> Some("id-2")]

MergeInit ==
    /\ ScanInit /\ ConnInit /\ NetInit
    /\ settings \in {DefaultSettings, ChangedSettings}
    /\ disk = settings
    /\ os = OsUntouched /\ sup = NoOutput
    /\ call \in {[op |-> "request", patch |-> patch] : patch \in Patches}

\* the save_settings command with the patch of the request
SaveRequested(written) ==
    /\ call.op = "request"
    /\ SettingsSave(call.patch, written)
    /\ call' = [op |-> "save", ok |-> written, patch |-> call.patch,
                before |-> settings]
    /\ UNCHANGED <<os, sup>>
    /\ UNCHANGED <<scanVars, connVars, conn, trafVars>>

MergeNext == \E written \in BOOLEAN : SaveRequested(written)

MergeSpec == MergeInit /\ [][MergeNext]_vars

(***************************************************************************)
(* import_configs called with texts of several lines, one call after       *)
(* another.                                                                *)
(***************************************************************************)
\* lines of an import text: two exported configurations, one of them
\* indented, and a line without the separator
ImportTextLines ==
    {ExportLine(Config(1, Text(<<"a">>), Some("US"))),
     <<Ch(" ")>> \o ExportLine(Config(2, Text(<<"b">>), None)),
     SCHEME \o Text(<<"x">>)}

\* texts of one or two of these lines, a line whose second part is no
\* base64, a line without the scheme in front of a configuration, and a text
\* of three lines with the line that fails in the middle
ImportTexts ==
    {Join(<<l>>, LF) : l \in ImportTextLines}
      \cup {Join(<<l, m>>, LF) : l \in ImportTextLines, m \in ImportTextLines}
      \cup {SCHEME \o Text(<<"r">>) \o SEPARATOR \o Text(<<"x">>),
            Join(<<Text(<<"#">>),
                   ExportLine(Config(1, Text(<<"a">>), Some("US")))>>, LF),
            Join(<<ExportLine(Config(1, Text(<<"a">>), Some("US"))),
                   SCHEME \o Text(<<"x">>),
                   ExportLine(Config(2, Text(<<"b">>), None))>>, LF)}

ImportInit ==
    /\ ScanInit /\ ConnInit /\ NetInit
    /\ settings \in {DefaultSettings,
                     [DefaultSettings EXCEPT
                        !.configs = <<Config(1, Text(<<"z">>), None)>>]}
    /\ disk = settings
    /\ os = OsUntouched /\ call = NoCall /\ sup = NoOutput

ImportNext ==
    \E data \in ImportTexts, written \in BOOLEAN : ImportConfigs(data, written)

ImportSpec == ImportInit /\ [][ImportNext]_vars

ScanSpec == Init /\ [][ScanNext]_vars

\* Scheduling of the scan: a caller inside start_scan / stop_scan goes on, the
\* runtime runs every spawned task that can take a step, a probe returns (it
\* has a timeout) and the semaphore hands out its permits in FIFO order.
ScanFair ==
    /\ WF_vars(StartScanSpawn)
    /\ WF_vars(StopScanBump)
    /\ \A k \in ScanSlots :
          /\ WF_vars(CoordSpawn(k))
          /\ WF_vars(CoordJoin(k))
          /\ WF_vars(CoordComplete(k))
          /\ \A i \in ServerIdx :
                /\ SF_vars(WorkerAcquire(k, i))
                /\ WF_vars(WorkerCheckId(k, i))
                /\ WF_vars(WorkerCheckScanning(k, i))
                /\ WF_vars(\E valid \in BOOLEAN : WorkerItemStart(k, i, valid))
                /\ WF_vars(WorkerCount(k, i))
                /\ WF_vars(WorkerEmit(k, i))

ScanFairSpec == Init /\ [][ScanNext]_vars /\ ScanFair

(***************************************************************************)
(* Properties of the DNS scan (checked under ScanSpec).                    *)
(***************************************************************************)
ResultEvents == {"dns-scan-result", "dns-scan-complete"}

\* C1: once stop_scan() has returned, no dns-scan-result and no
\* dns-scan-complete of the scan that was current when it was called is
\* emitted, in any interleaving with that scan's workers and coordinator.
C1_NoResultAfterStop ==
    [][\A e \in events' \ events :
          e.ev \in ResultEvents => e.scan \notin stopped]_vars

\* a worker of a stopped scan reached its emission site and dropped its result
C1_StoppedWorkerDropped ==
    \E k \in stopped, i \in ServerIdx : wpc[k][i] = "dropped"

\* C2: a scan started after a stop_scan() runs uncorrupted: while it is the
\* current scan and its own workers have not all finished, is_scanning is
\* true, and when its coordinator has finished every server of it has its
\* dns-scan-result; the tasks left over from the stopped scan change neither.
C2_NewScanUncorrupted ==
    \A k \in 1..nScans :
        ((\E j \in stopped : j < k) /\ IdCurrent(k) /\ ctl = "idle")
        => /\ coord[k] \in {"spawn", "join"} => is_scanning
           /\ coord[k] \in {"completed", "silent"}
                => \A i \in 1..total[k] : Ev("dns-scan-result", k, i) \in events

Probing == {w \in ScanSlots \X ServerIdx : wpc[w[1]][w[2]] = "probing"}

\* C10: at every moment the probes in progress, over the workers of all
\* scans, are at most the size of the permit pool.
C10_ProbesWithinPool == Cardinality(Probing) <= SCAN_PERMITS

ItemEvents == {"dns-scan-item-start", "dns-scan-progress"}

\* C11: once stop_scan() has returned, no dns-scan-item-start and no
\* dns-scan-progress of the stopped scan is emitted, also by a worker that
\* passed its scan-id check just before stop_scan ran.
C11_NoItemEventAfterStop ==
    [][\A e \in events' \ events :
          e.ev \in ItemEvents => e.scan \notin stopped]_vars

\* a start_scan call returns in this step
StartScanRejected == ctl = "idle" /\ scanRet # "err" /\ scanRet' = "err"
StartScanAccepted == ctl = "start_spawn" /\ ctl' = "idle"

\* C12 (as stated): every call to start_scan increments scan_id, whatever its
\* outcome, and scan_id never decreases.
C12_EveryCallIncrements ==
    [][/\ (StartScanRejected \/ StartScanAccepted) => scan_id' > scan_id
       /\ scan_id' >= scan_id]_vars

\* C12 (amended): an accepted start_scan and a stop_scan each add exactly one
\* to scan_id; a start_scan rejected because a scan is in progress, and every
\* step of a scan task, leaves it unchanged; so scan_id never decreases.
C12_IdSteps ==
    [][/\ StartScanAccepted => scan_id' = scan_id + 1
       /\ (ctl = "stop_bump" /\ ctl' = "idle") => scan_id' = scan_id + 1
       /\ (ctl' = ctl \/ ctl = "idle") => scan_id' = scan_id
       /\ scan_id' >= scan_id]_vars

\* a start_scan was rejected while the first scan was running, and the id of
\* that scan is still the current one
C12_RejectedKeptId ==
    scanRet = "err" /\ is_scanning /\ nScans = 1 /\ scan_id = 1 /\ IdCurrent(1)

\* every server of scan k has its result and the scan its complete event
ScanFinished(k) ==
    /\ \A i \in 1..total[k] : Ev("dns-scan-result", k, i) \in events
    /\ Ev("dns-scan-complete", k, 0) \in events

\* C13: a scan started with N servers that is never stopped eventually has
\* emitted one dns-scan-result per server (also for a server of invalid
\* format) and then dns-scan-complete, after which is_scanning is false; with
\* N = 0 no item-start, result or progress event is emitted for it.
C13_UnstoppedScanCompletes ==
    /\ \A k \in ScanSlots :
          [](coord[k] = "spawn"
               => <>(k \in stopped \/ (ScanFinished(k) /\ ~is_scanning)))
    /\ [](\A k \in ScanSlots :
             (Ev("dns-scan-complete", k, 0) \in events
                /\ k \notin stopped /\ ctl # "stop_bump")
             => \A i \in 1..total[k] : Ev("dns-scan-result", k, i) \in events)
    /\ [](\A e \in events : total[e.scan] = 0 => e.ev = "dns-scan-complete")

(***************************************************************************)
(* Properties of the connection orchestrator (checked under SeqSpec).      *)
(***************************************************************************)
\* the transitions of the state machine as specified
FsmTransitions ==
    { <<"Disconnected", "Connecting">>, <<"Connecting", "Connected">>,
      <<"Connecting", "Error">>, <<"Connected", "Disconnecting">>,
      <<"Disconnecting", "Disconnected">> }

\* the transitions an unguarded start() or stop() adds
UnguardedTransitions ==
    { <<"Connected", "Connecting">>, <<"Error", "Connecting">>,
      <<"Disconnected", "Disconnecting">>, <<"Error", "Disconnecting">> }

\* C3 (as stated): the status changes only along Disconnected->Connecting,
\* Connecting->Connected, Connecting->Error, Connected->Disconnecting and
\* Disconnecting->Disconnected; Error is a sink.
C3_FsmOnly ==
    [][state'.status # state.status
         => <<state.status, state'.status>> \in FsmTransitions]_vars

\* C3 (amended): over any sequence of awaited start() and stop() calls the
\* status changes only along the specified transitions and along
\* Connected->Connecting, Error->Connecting, Disconnected->Disconnecting and
\* Error->Disconnecting; Error is entered only from Connecting and is left
\* only by the next start() or stop().
C3_Transitions ==
    [][state'.status # state.status
         => <<state.status, state'.status>>
               \in FsmTransitions \cup UnguardedTransitions]_vars

\* a start() entered in status Error has set Connecting
C3_ErrorLeft ==
    \E c \in Callers : from[c] = "Error" /\ state.status = "Connecting"

\* C4: proxy_port and socks_port are both populated iff status = Connected.
C4_PortsIffConnected ==
    (state.proxy_port # 0 /\ state.socks_port # 0) <=> state.status = "Connected"

BindFailed(l) == nLoops[l] > 0 /\ loops[l][nLoops[l]] = "bind_failed"

\* C6: status Connected is never reached while one of the two listeners has
\* failed to bind; such a start ends in Error with the child stopped.
C6_NoConnectedAfterBindFailure ==
    [][(state.status # "Connected" /\ state'.status = "Connected")
         => \A l \in Listeners : ~BindFailed(l)]_vars

\* C7: ProcessManager::start returns success iff the child has not exited
\* during the 2 second wait.
C7_ReadyIffAlive ==
    [][\A c \in Callers :
          (pc[c] = "s_wait" /\ pc'[c] # "s_wait")
          => (pc'[c] = "s_http" <=> procs[myChild[c]] = "running")]_vars

LiveChildren == {i \in ChildIds : procs[i] = "running"}

\* C8: ProcessManager::start called while a handle is held returns an error,
\* spawns nothing and leaves the handle; at most one spawned child that has
\* not been sent a kill exists.
C8_SingleChild ==
    /\ [](Cardinality(LiveChildren) <= 1)
    /\ [][\A c \in Callers :
             (pc[c] = "s_proc" /\ pc'[c] # "s_proc" /\ child # 0)
             => (child' = child /\ procs' = procs /\ ret'[c] = "fail")]_vars

Bound(l) == {i \in LoopIds : loops[l][i] = "accepting"}

\* no accept loop is about to bind or about to leave its loop
Quiescent ==
    \A l \in Listeners, i \in LoopIds :
        /\ loops[l][i] # "binding"
        /\ ~(loops[l][i] = "accepting" /\ sig[l][i])

\* C9: after start, stop, start, each awaited and no external step failing,
\* the status is Connected with exactly one live child and exactly one bound
\* listener per port, none of them from the first start.
C9_RestartClean ==
    (hist = <<"start", "stop", "start">> /\ AllIdle /\ ~extFail /\ Quiescent)
    => /\ state.status = "Connected"
       /\ Cardinality(LiveChildren) = 1
       /\ procs[1] # "running"
       /\ \A l \in Listeners : Cardinality(Bound(l)) = 1 /\ 1 \notin Bound(l)

(***************************************************************************)
(* Properties of the status events, of stop() and of the exit.             *)
(***************************************************************************)
\* caller c leaves the position at in this step
Leaves(c, at) == pc[c] = at /\ pc'[c] # at

\* C14: every change of the status is followed by a status-update event
\* whose details.status is the status just written and whose is_running is
\* true exactly when that status is Connecting or Connected, also when a
\* start() and a stop() run interleaved.
C14_EventMatchesWrite ==
    [][\A c \in Callers :
          Leaves(c, "emit_send")
          => lastEvent' = StatusUpdate(wrote[c] \in {"Connecting", "Connected"},
                                       wrote[c])]_vars

\* C15: when start(config) succeeds the state is Connected with
\* proxy_port = 8080, socks_port = 10809 (the SOCKS5 front) and
\* system_proxy_enabled = config.tun_mode.
C15_ConnectedPorts ==
    [][\A c \in Callers :
          Leaves(c, "s_fin")
          => /\ state'.status = "Connected"
             /\ state'.proxy_port = HTTP_PROXY_PORT
             /\ state'.socks_port = SOCKS_FORWARD_PORT
             /\ state'.system_proxy_enabled = cfg[c].tun_mode]_vars

\* every accept loop that is not over has been told to stop
AllSignalled ==
    \A l \in Listeners :
        /\ ~running[l]
        /\ abort[l] = 0
        /\ \A i \in LoopIds : loops[l][i] \in {"binding", "accepting"} => sig[l][i]

\* the last call entered is a stop() and caller c has returned from it
StopReturned(c) ==
    /\ hist # <<>>
    /\ hist[Len(hist)] = "stop"
    /\ pc[c] = "idle"
    /\ ret[c] # "none"

\* C16: stop() sets Disconnecting and emits; then unconfigures the system
\* proxy; then signals both listeners to stop; then kills the child; then
\* resets the state to the default Disconnected state and emits.  It returns
\* success from any starting status, and a failed unconfigure does not keep
\* the later steps from running.
C16_StopOrder ==
    /\ [][\A c \in Callers :
             /\ (Leaves(c, "idle") /\ hist' # hist /\ hist'[Len(hist')] = "stop")
                => /\ state' = DisconnectingState(state)
                   /\ wrote'[c] = "Disconnecting"
                   /\ UNCHANGED <<sysProxy, running, abort, sig, child, procs>>
             /\ (Leaves(c, "emit_send") /\ wrote[c] = "Disconnecting")
                => /\ lastEvent' = StatusUpdate(FALSE, "Disconnecting")
                   /\ pc'[c] = "t_unconf"
             /\ Leaves(c, "t_unconf")
                => /\ pc'[c] = "t_all"
                   /\ UNCHANGED <<state, running, abort, sig, child, procs>>
             /\ Leaves(c, "t_all")
                => /\ pc'[c] = "t_proc"
                   /\ AllSignalled'
                   /\ UNCHANGED <<state, sysProxy, child, procs>>
             /\ Leaves(c, "t_proc")
                => /\ pc'[c] = "t_reset"
                   /\ child' = 0
                   /\ \A i \in ChildIds :
                         procs'[i] = IF i = child /\ procs[i] = "running"
                                       THEN "killed" ELSE procs[i]
                   /\ UNCHANGED <<state, sysProxy, running, abort, sig>>
             /\ Leaves(c, "t_reset")
                => /\ state' = DefaultState
                   /\ wrote'[c] = "Disconnected"
                   /\ ret'[c] = "ok"
                   /\ UNCHANGED <<sysProxy, running, abort, sig, child, procs>>
             /\ (Leaves(c, "emit_send") /\ wrote[c] = "Disconnected")
                => /\ lastEvent' = StatusUpdate(FALSE, "Disconnected")
                   /\ pc'[c] = "idle"]_vars
    /\ [](\A c \in Callers :
             StopReturned(c)
             => /\ ret[c] = "ok"
                /\ state = DefaultState
                /\ child = 0
                /\ AllSignalled)

\* a stop() entered in status Error has returned although its unconfigure
\* failed: the OS proxy is still set
C16_StoppedDespiteFailure ==
    \E c \in Callers : StopReturned(c) /\ from[c] = "Error" /\ sysProxy

\* the ports the exit is to clear
ExitPorts == {SOCKS5_PORT, HTTP_PROXY_PORT, SOCKS_FORWARD_PORT}

\* C17: on exit, cleanup() runs stop() iff the status is Connecting or
\* Connected, and in every case afterwards no child handle is held and
\* kill_ports has been called on exactly the ports 5201, 8080 and 10809.
C17_CleanupLeavesNoChild ==
    /\ [][\A c \in Callers :
             Leaves(c, "c_chk") => (pc'[c] = "c_stop" <=> IsRunning(state))]_vars
    /\ [](\A c \in Callers :
             (cleaning = c /\ pc[c] = "idle")
             => child = 0 /\ killedPorts = ExitPorts)

(***************************************************************************)
(* Properties of the listeners' connections.                               *)
(***************************************************************************)
\* the ways the handling of a connection fails
ConnFailures ==
    {"accept_error", "invalid_greeting", "invalid_request", "unsupported_atyp",
     "connect_failed", "rejected", "serve_error", "socks5_failed",
     "service_unavailable", "bad_gateway"}

\* C18: no per-connection failure (invalid SOCKS5 greeting or request,
\* unsupported ATYP, failed connection to the HTTP proxy, upstream SOCKS5
\* failure, HTTP upstream failure, accept error) ends an accept loop or
\* changes the connection status: an accept loop leaves its loop only when
\* its own one-shot receiver has resolved.
C18_LoopsSurviveConnections ==
    [][/\ conn' # conn
          => /\ state' = state
             /\ lastEvent' = lastEvent
             /\ running' = running
             /\ loops' = loops
       /\ \A l \in Listeners, i \in LoopIds :
             (loops[l][i] = "accepting" /\ loops'[l][i] # "accepting")
             => sig[l][i]]_vars

\* a connection has failed while the service is Connected, and the accept
\* loop that took it goes on accepting
C18_FailureAbsorbed ==
    /\ conn.at \in ConnFailures
    /\ state.status = "Connected"
    /\ \E i \in LoopIds : loops[conn.l][i] = "accepting" /\ ~sig[conn.l][i]

(***************************************************************************)
(* Properties of the traffic counters and of a tunnel's copy loops.        *)
(***************************************************************************)
\* C19: in every reachable state prev_uplink <= uplink and prev_downlink <=
\* downlink, and uplink and downlink never decrease, however the add_uplink
\* and add_downlink calls of the connection tasks interleave with the ticks
\* of the traffic monitors that have been spawned.
C19_CountersMonotone ==
    /\ [](prev_uplink <= uplink /\ prev_downlink <= downlink)
    /\ [][uplink' >= uplink /\ downlink' >= downlink]_vars

\* two monitors tick at once, and the one that loaded uplink first is about
\* to swap a value into prev_uplink that is older than the one held there
C19_StaleSwapPending ==
    \E m \in MonIds, o \in MonIds :
        /\ m # o
        /\ mon[m].at = "swap_up"
        /\ mon[o].at \in {"swap_down", "tick"}
        /\ mon[m].now_up < prev_uplink
        /\ prev_uplink < uplink

\* a copy loop is over
CopyOver(d) == tunnel[d].at \in {"eof", "write_error"}

\* C20: for a CONNECT tunnel, at every moment the bytes it has added to the
\* uplink counter exceed the bytes it has written to the upstream stream by
\* at most one copy buffer (8192 bytes), and the two are equal once the copy
\* loop has ended without a write error; likewise for the downlink counter
\* and the bytes written to the client.
C20_CountedVsWritten ==
    /\ uplink = tunnel["up"].counted
    /\ downlink = tunnel["down"].counted
    /\ \A d \in Dirs :
          /\ tunnel[d].written <= tunnel[d].counted
          /\ tunnel[d].counted - tunnel[d].written <= COPY_BUF
          /\ tunnel[d].at = "eof" => tunnel[d].counted = tunnel[d].written

\* one copy loop has ended at end of stream after copying a byte and a full
\* buffer, while the other one holds a full buffer it has counted and not
\* yet written
C20_FullBufferInFlight ==
    \E d \in Dirs, e \in Dirs :
        /\ d # e
        /\ tunnel[d].at = "eof"
        /\ tunnel[d].written = COPY_BUF + 1
        /\ tunnel[e].at = "write"
        /\ tunnel[e].counted - tunnel[e].written = COPY_BUF

\* C21: a save or an import of configurations that fails because settings.json
\* cannot be written returns the error and leaves the settings in memory as
\* they were before the call
C21_FailedWriteKeepsSettings ==
    [][(call' # call /\ call'.op \in {"save", "import"} /\ ~call'.ok)
          => settings' = settings]_vars

\* C24: after a successful configure() the settings have
\* system_proxy_enabled_by_app set and system_proxy_service_name holding the
\* service chosen; after a successful unconfigure() the flag is clear and the
\* name is empty
C24_FlagFollowsProxy ==
    [][/\ (call' # call /\ call'.op = "configure" /\ call'.ok)
            => /\ settings'.system_proxy_enabled_by_app
               /\ settings'.system_proxy_service_name = "gsettings"
       /\ (call' # call /\ call'.op = "unconfigure" /\ call'.ok)
            => /\ ~settings'.system_proxy_enabled_by_app
               /\ settings'.system_proxy_service_name = ""]_vars

\* C25: an unconfigure() that follows a successful configure(), with no
\* command of its own failing, leaves the proxy settings of the operating
\* system as they were before that configure() exactly when
\* system_proxy_enabled_by_app was clear as configure() was entered
C25_RestoredIffNotOurs ==
    [][(/\ call' # call /\ call'.op = "unconfigure" /\ call'.follows
        /\ (call'.ok \/ call'.skipped))
          => ((os' = call'.before) <=> ~call'.flag)]_vars

\* two configurations agree in remark, domain, country and socks
SameButId(x, y) ==
    /\ x.remark = y.remark /\ x.domain = y.domain
    /\ x.country = y.country /\ x.socks = y.socks

\* C23: importing what export_configs returned succeeds and appends the
\* configurations that were exported, as many and in the same order, each
\* equal to its original in remark, domain, country and socks and with an id
\* of its own, whatever characters the remark holds
C23_ImportOfExport ==
    [][(call.op = "export" /\ call'.op = "import")
          => LET old == settings.configs
                 new == settings'.configs
             IN /\ call'.ok
                /\ call'.imported_count = Len(old)
                /\ Len(new) = 2 * Len(old)
                /\ \A i \in 1..Len(old) :
                      /\ new[i] = old[i]
                      /\ SameButId(new[Len(old) + i], old[i])
                      /\ \A j \in 1..Len(old) : new[Len(old) + i].id # old[j].id]_vars

\* a text of digits only, denoting a number from lo to hi
IsNumberIn(t, lo, hi) ==
    /\ t # <<>>
    /\ \A i \in 1..Len(t) : IsDigit(t[i])
    /\ Decimal(t) >= lo /\ Decimal(t) <= hi

\* IPv4:port: four octets from 0 to 255 with dots between them, a colon and
\* a port from 1 to 65535
IsIPv4Port(r) ==
    \E colon \in 1..Len(r) :
        /\ r[colon] = Ch(":")
        /\ IsNumberIn(SubSeq(r, colon + 1, Len(r)), 1, 65535)
        /\ \E d1, d2, d3 \in 1..colon :
              /\ d1 < d2 /\ d2 < d3 /\ d3 < colon
              /\ r[d1] = Ch(".") /\ r[d2] = Ch(".") /\ r[d3] = Ch(".")
              /\ IsNumberIn(SubSeq(r, 1, d1 - 1), 0, 255)
              /\ IsNumberIn(SubSeq(r, d1 + 1, d2 - 1), 0, 255)
              /\ IsNumberIn(SubSeq(r, d2 + 1, d3 - 1), 0, 255)
              /\ IsNumberIn(SubSeq(r, d3 + 1, colon - 1), 0, 255)

\* C22: set_resolvers rejects the empty list and every list with an entry
\* that is not IPv4:port, and a rejected call answers success = false and
\* leaves the resolvers and all other settings as they were
C22_RejectsAllButIPv4Port ==
    [][(call.op = "request" /\ call'.op = "set_resolvers")
          => /\ (\/ call.resolvers = <<>>
                 \/ \E i \in 1..Len(call.resolvers) :
                       ~IsIPv4Port(call.resolvers[i]))
                  => call'.result = "rejected"
             /\ call'.result = "rejected" => settings' = settings]_vars

\* the components of a version, a leading 'v' apart
Components(v) ==
    Split(IF v # <<>> /\ Head(v) = Ch("v") THEN Tail(v) ELSE v, Ch("."))

\* a version of one to three components, all of them numbers
WellFormed(v) ==
    /\ Len(Components(v)) <= 3
    /\ \A i \in 1..Len(Components(v)) : IsNumberIn(Components(v)[i], 0, 99)

\* component i of a well-formed version, 0 when it has fewer
Number(v, i) ==
    IF i <= Len(Components(v)) THEN Decimal(Components(v)[i]) ELSE 0

\* the first of two well-formed versions is the greater: at the first
\* component where they differ, it has the greater number
Greater(v, w) ==
    \E i \in 1..3 : /\ Number(v, i) > Number(w, i)
                     /\ \A j \in 1..(i - 1) : Number(v, j) = Number(w, j)

\* C26: a version compared with itself gives 0; comparing a with b gives the
\* opposite of comparing b with a; a leading 'v' makes no difference; and
\* versions of numeric components are ordered by the first component in
\* which they differ, compared as numbers
C26_CompareVersionsLaws ==
    call.op = "compare_versions" =>
        /\ CompareVersions(Text(<<"v", "1", ".", "0", ".", "0">>),
                           Text(<<"1", ".", "0", ".", "0">>)) = 0
        /\ CompareVersions(Text(<<"2", ".", "0", ".", "0">>),
                           Text(<<"1", ".", "9", ".", "9">>)) = 1
        /\ call.aa = 0
        /\ call.ab = -call.ba
        /\ CompareVersions(<<Ch("v")>> \o call.a, call.b) = call.ab
        /\ CompareVersions(call.a, <<Ch("v")>> \o call.b) = call.ab
        /\ (WellFormed(call.a) /\ WellFormed(call.b)) =>
              /\ call.ab = 1 <=> Greater(call.a, call.b)
              /\ call.ab = -1 <=> Greater(call.b, call.a)

\* C26: two versions that differ in a component were compared, 10 against 9
\* among them, and one with a leading 'v' against one without
C26_ComparedDistinct ==
    /\ call.op = "compare_versions"
    /\ call.a = Text(<<"v", "1", "0", ".", "0">>)
    /\ call.b = Text(<<"9", ".", "1", "0", ".", "0">>)
    /\ call.ab = 1

\* how many queries of a run were answered in t milliseconds
Answered(run, t) == Cardinality({i \in 1..Len(run) : run[i] = t})

\* the statistics of a run, from how often each latency occurs (in units of
\* 10 ms): the number n of answers, their sum and the sum of their squares
StatN(run) ==
    Sum([i \in 1..(Len(Outcomes) - 1) |-> Answered(run, Outcomes[i + 1])])

StatSum(run) ==
    Sum([i \in 1..(Len(Outcomes) - 1) |->
            Answered(run, Outcomes[i + 1]) * (Outcomes[i + 1] \div 10)])

StatSquares(run) ==
    Sum([i \in 1..(Len(Outcomes) - 1) |->
            Answered(run, Outcomes[i + 1]) * (Outcomes[i + 1] \div 10)
              * (Outcomes[i + 1] \div 10)])

\* n >= 13, mean < 1000 ms, maximum < 3000 ms and sample standard deviation
\* < 500 ms: the variance (n * squares - sum^2) / (n * (n - 1)) below 50^2
ShouldPass(run) ==
    LET n == StatN(run) IN
    /\ n >= 13
    /\ 10 * StatSum(run) < 1000 * n
    /\ \A i \in 1..Len(run) : run[i] < 3000
    /\ n * StatSquares(run) - StatSum(run) * StatSum(run) < 50 * 50 * n * (n - 1)

\* C27: a slipstream probe is compatible, with score 3, exactly when 13 at
\* least of its 15 queries were answered and the answers' mean latency is
\* below 1000 ms, their maximum below 3000 ms and their sample standard
\* deviation below 500 ms; else it is not compatible and its score is 0
C27_PassIffWithinLimits ==
    call.op = "test_slipstream" =>
        /\ call.is_compatible <=> ShouldPass(call.run)
        /\ call.score = IF ShouldPass(call.run) THEN 3 ELSE 0

\* C27: a probe passed with two queries unanswered and latencies that differ
C27_PassedWithThirteen ==
    /\ call.op = "test_slipstream"
    /\ call.is_compatible /\ call.score = 3
    /\ StatN(call.run) = 13
    /\ Answered(call.run, 0) > 0 /\ Answered(call.run, 990) > 0

\* C28: a line of the child's standard error that holds 'Address already in
\* use' or 'EADDRINUSE' is emitted as a stream-error event and makes the
\* supervisor call kill_ports for port 5201
C28_PortConflictClearsPort ==
    [][\A line \in ChildLines :
          (/\ PortConflict(line)
           /\ sup'.events = Append(sup.events,
                                   [name |-> "stream-error", data |-> line]))
            => sup'.kill_ports = Append(sup.kill_ports, {CONNECTED_SOCKS_PORT})]_vars

\* the domain the child is to be given
EffectiveDomain(config) ==
    IF config.custom_dns_enabled /\ Len(config.resolvers) > 0
      THEN RESOLVED_IP ELSE config.domain

\* C29: the arguments the child is spawned with are, in this order: for each
\* resolver in the configuration's order the flag --authoritative or
\* --resolver (by config.authoritative) and the resolver; --domain and the
\* effective domain; --keep-alive-interval and the interval if one is given;
\* --congestion-control and the algorithm if one is given and is not 'auto'
C29_ArgumentOrder ==
    (call.op = "start" /\ call.spawned) =>
        LET config == call.config
            args == call.args
            n == Len(config.resolvers)
            ka == config.keep_alive_interval.some
            cc == /\ config.congestion_control.some
                  /\ config.congestion_control.v # <<"auto">>
            k == IF ka THEN 2 ELSE 0
        IN /\ Len(args) = 2 * n + 2 + k + (IF cc THEN 2 ELSE 0)
           /\ \A i \in 1..n :
                 /\ args[2 * i - 1] = IF config.authoritative
                                        THEN "--authoritative" ELSE "--resolver"
                 /\ args[2 * i] = config.resolvers[i]
           /\ args[2 * n + 1] = "--domain"
           /\ args[2 * n + 2] = EffectiveDomain(config)
           /\ ka => /\ args[2 * n + 3] = "--keep-alive-interval"
                     /\ args[2 * n + 4]
                          = (IF config.keep_alive_interval.v = <<30>>
                               THEN "30" ELSE "0")
           /\ cc => /\ args[2 * n + k + 3] = "--congestion-control"
                     /\ args[2 * n + k + 4] = config.congestion_control.v[1]

\* C29: the child was spawned for two resolvers, custom DNS, a keep-alive
\* interval and the congestion control 'auto', which is left out
C29_SpawnedWithAutoLeftOut ==
    /\ call.op = "start" /\ call.spawned
    /\ call.config.congestion_control = Some("auto")
    /\ call.args = <<"--resolver", "1.1.1.1:53", "--resolver", "8.8.8.8:53",
                     "--domain", RESOLVED_IP, "--keep-alive-interval", "30">>

\* the positions a worker holds a permit in
HoldsPermit == {"chk_id", "chk_scan", "item_start", "probing", "count", "emit"}

\* the positions of a worker that has emitted dns-scan-item-start
PastItemStart == {"probing", "count", "emit", "done", "dropped"}

\* the steps of a worker, in the order they may follow each other
WorkerSteps ==
    {<<"none", "acquire">>, <<"acquire", "chk_id">>,
     <<"chk_id", "chk_scan">>, <<"chk_id", "skipped">>,
     <<"chk_scan", "item_start">>, <<"chk_scan", "skipped">>,
     <<"item_start", "probing">>, <<"item_start", "count">>,
     <<"probing", "emit">>, <<"count", "emit">>,
     <<"emit", "done">>, <<"emit", "dropped">>}

\* what has been emitted for a server tells where its worker is
WorkerOrder ==
    \A k \in ScanSlots :
        /\ permits[k] = SCAN_PERMITS
              - Cardinality({i \in ServerIdx : wpc[k][i] \in HoldsPermit})
        /\ \A i \in ServerIdx :
              /\ Ev("dns-scan-item-start", k, i) \in events
                    <=> wpc[k][i] \in PastItemStart
              /\ Ev("dns-scan-result", k, i) \in events <=> wpc[k][i] = "done"
              /\ Ev("dns-scan-progress", k, i) \in events
                    <=> Ev("dns-scan-result", k, i) \in events
        /\ Ev("dns-scan-complete", k, 0) \in events <=> coord[k] = "completed"

C31_UpdatesSumToCounter ==
    /\ sent.total_up = sent.read_up
    /\ sent.total_down = sent.read_down

(***************************************************************************)
(* Properties of the two directions of a tunnel.                           *)
(***************************************************************************)
\* a copy loop is reading or writing
Copying(d) == tunnel[d].at \in {"read", "write"}

\* C32: within one tunnel the two copy directions are independent: the step
\* in which one direction reaches end of stream or an error, and the shutdown
\* that follows it, leave the other direction as it is (only the write side
\* of the direction that ended is shut down, and only after its loop is
\* over), so the other direction keeps copying until its own end of stream
\* or error; the tunnel ends only when both directions have ended.
C32_HalfClose ==
    /\ [](\A d \in Dirs :
            /\ tunnel[d].shut => CopyOver(d)
            /\ tunnel[d].joined => \A e \in Dirs : CopyOver(e) /\ tunnel[e].shut)
    /\ [][\A d \in Dirs, e \in Dirs :
            /\ d # e
            /\ \/ CopyOver(d)' /\ ~CopyOver(d)
               \/ tunnel[d].shut' /\ ~tunnel[d].shut
            => tunnel[e]' = tunnel[e]]_vars
    /\ [][\A e \in Dirs :
            Copying(e) /\ ~Copying(e)'
            => /\ CopyOver(e)'
               /\ tunnel[e]' = [tunnel[e] EXCEPT !.at = tunnel[e].at']]_vars

\* the client-to-upstream direction ended before it read a byte and the
\* upstream write side is shut down, while the other direction has copied a
\* read to the client and is writing the next one
C32_OtherKeepsCopying ==
    /\ tunnel["up"].shut /\ tunnel["up"].reads = 0
    /\ tunnel["down"].at = "write"
    /\ tunnel["down"].written > 0
    /\ ~tunnel["down"].joined

(***************************************************************************)
(* Properties of the SOCKS5 front.                                         *)
(***************************************************************************)
\* the host and port a SOCKS5 request names (RFC 1928: VER CMD RSV ATYP
\* DST.ADDR DST.PORT)
Requested(request) ==
    LET ipv4 == request[4] = 1
        len == IF ipv4 THEN 4 ELSE request[5]
        first == IF ipv4 THEN 5 ELSE 6
    IN  [kind |-> IF ipv4 THEN "ipv4" ELSE "domain",
         host |-> [i \in 1..len |-> request[first + i - 1]],
         port |-> 256 * request[first + len] + request[first + len + 1]]

\* the replies to the request that the front has written to the client
RequestReplies ==
    {i \in DOMAIN call.client_out :
        call.client_out[i] \in {REPLY_SUCCESS, REPLY_FAILURE}}

\* C33: on the SOCKS5 front the success reply 05 00 00 01 00 00 00 00 00 00
\* is sent to the client only after the front has replied 05 00 to the
\* greeting, sent an HTTP CONNECT for the requested host:port to the local
\* HTTP proxy and read a response containing "200 Connection established" or
\* "HTTP/1.1 200"; for any other response the failure reply
\* 05 01 00 01 00 00 00 00 00 00 is sent and no bytes are spliced; at most
\* one reply to the request is sent per connection.
C33_ReplyAfterConnect ==
    call.op = "bridge" =>
        /\ \A i \in DOMAIN call.client_out :
              call.client_out[i] = REPLY_SUCCESS
              => /\ i = 2 /\ call.client_out[1] = NO_AUTH
                 /\ call.connect = Requested(call.request)
                 /\ call.read /\ Established(call.response)
        /\ call.read /\ ~Established(call.response)
              => /\ ~call.spliced
                 /\ call.at \in {"reply_failure", "rejected", "rejected_unsent"}
                 /\ call.at = "rejected"
                      => call.client_out = <<NO_AUTH, REPLY_FAILURE>>
        /\ call.spliced => REPLY_SUCCESS \in {call.client_out[i] : i \in DOMAIN call.client_out}
        /\ Cardinality(RequestReplies) <= 1

(***************************************************************************)
(* Properties of save().                                                   *)
(***************************************************************************)
\* the camelCase key of each field of Settings
KeyOf ==
    [resolvers |-> "resolvers",
     authoritative |-> "authoritative",
     system_proxy_enabled_by_app |-> "systemProxyEnabledByApp",
     system_proxy_service_name |-> "systemProxyServiceName",
     configs |-> "configs",
     selected_config_id |-> "selectedConfigId"]

\* value has the JSON type the field expects
ExpectedType(field, value) ==
    CASE field = "resolvers" -> value.t = "array"
      [] field \in {"authoritative", "system_proxy_enabled_by_app"} ->
            value.t = "bool"
      [] field = "system_proxy_service_name" -> value.t = "string"
      [] field = "configs" ->
            /\ value.t = "array"
            /\ \A i \in DOMAIN value.a : value.a[i].t = "object"
      [] field = "selected_config_id" -> value.t \in {"string", "null"}

\* the fields a patch names with a value of the expected type
Named(patch) ==
    {field \in DOMAIN KeyOf :
        /\ KeyOf[field] \in DOMAIN patch
        /\ ExpectedType(field, patch[KeyOf[field]])}

SsgateLines(data) == SchemeLines(Split(data, LF))

\* an "ssgate:" line that can be parsed: what follows its first "//" is the
\* base64 encoding of a JSON document
Parseable(line) ==
    LET idx == Find(line, SEPARATOR) IN
    /\ idx # 0
    /\ idx + 2 = Len(line)
    /\ line[Len(line)].ch = "base64"

\* the document a parseable line holds
DocOf(line) == line[Len(line)].blob[1]

\* the positions of the parseable lines among the "ssgate:" lines, in order
RECURSIVE ParseablePositions(_, _)
ParseablePositions(lines, k) ==
    IF k > Len(lines) THEN <<>>
    ELSE LET rest == ParseablePositions(lines, k + 1) IN
         IF Parseable(lines[k]) THEN <<k>> \o rest ELSE rest

\* C35: import_configs appends one new entry per parseable "ssgate:" line, in
\* input order, after the existing configurations, which are left unchanged;
\* each new entry gets an id different from every existing id, an unparseable
\* line is counted as an error without aborting the remaining lines, and
\* importing the same text twice adds its entries twice.
C35_ImportAppends ==
    [][(call'.op = "import" /\ Trim(call'.data) # <<>>) =>
        LET old == settings.configs
            new == settings'.configs
            lines == SsgateLines(call'.data)
            good == ParseablePositions(lines, 1)
        IN  /\ Len(new) = Len(old) + Len(good)
            /\ SubSeq(new, 1, Len(old)) = old
            /\ \A i \in 1..Len(good) :
                  LET entry == new[Len(old) + i]
                      doc == DocOf(lines[good[i]])
                  IN  /\ entry.remark = doc.remark
                      /\ entry.domain = doc.domain
                      /\ entry.country = doc.country
                      /\ entry.socks = doc.socks
                      /\ \A j \in 1..Len(new) :
                            j # Len(old) + i => new[j].id # entry.id
            /\ call'.error_count = Len(lines) - Len(good)]_vars

\* the text of three lines, whose second line cannot be parsed, has been
\* imported twice into empty settings: its two configurations are held
\* twice, in the order of the text, and each import counted one error
C35_ImportedTwice ==
    /\ call.op = "import" /\ call.error_count = 1
    /\ Len(SsgateLines(call.data)) = 3
    /\ Len(settings.configs) = 4
    /\ \A i \in 1..2 :
          /\ settings.configs[i].remark = settings.configs[i + 2].remark
          /\ settings.configs[i].id # settings.configs[i + 2].id
    /\ settings.configs[1].remark # settings.configs[2].remark

(***************************************************************************)
(* Properties of start() and stop() running at the same time.              *)
(***************************************************************************)
\* C36: whenever the connection status is Connected, the supervisor holds a
\* child handle and both proxy listeners are running, in every interleaving
\* of a start() call with a concurrent stop() call.
C36_ConnectedHasChildAndListeners ==
    state.status = "Connected"
    => /\ child # 0
       /\ \A l \in Listeners : running[l]

\* an accept loop of listener l is about to bind or accepting, and has not
\* been told to stop
LoopLive(l) ==
    \E i \in LoopIds : loops[l][i] \in {"binding", "accepting"} /\ ~sig[l][i]

\* C37: the flag reported by is_http_proxy_running() (and likewise by
\* is_socks_forward_running()) is true exactly when an accept loop for that
\* listener is alive or about to bind: after a stop followed by a start, the
\* terminating old accept loop never clears the flag of the new loop, and a
\* failed bind never leaves the flag true.
C37_FlagIffLoopLive ==
    \A l \in Listeners : running[l] <=> LoopLive(l)

\* C38: at most one traffic-monitor task exists at any time, whatever
\* sequence of start_http_proxy and stop_all calls occurred, and after
\* stop_all no further traffic-update event is produced until the HTTP proxy
\* is started again (no monitor task is left to tick while no accept loop of
\* the HTTP proxy is alive).
C38_OneMonitorWhileRunning ==
    /\ monitors <= 1
    /\ ~LoopLive("http") => monitors = 0

\* C39: when the supervisor's stop() has taken and killed the child of a
\* start() that is in its 2 second readiness wait, that start() returns an
\* error when the wait ends, and then no child handle is held and the child
\* it spawned has been killed
C39_StopDuringWait ==
    [][\A c \in Callers :
          (/\ pc[c] = "s_wait"
           /\ pc'[c] # "s_wait"
           /\ child # myChild[c]
           /\ procs[myChild[c]] = "killed")
              => /\ ret'[c] = "fail"
                 /\ state'.status = "Error"
                 /\ child' = 0
                 /\ procs'[myChild[c]] = "killed"]_vars

\* a start() has returned an error after a stop() killed the child it had
\* spawned and was waiting for
C39_StartFailedByStop ==
    \E c \in Callers :
        /\ ret[c] = "fail"
        /\ ~extFail
        /\ nStops > 0
        /\ child = 0
        /\ nStarts > 0
        /\ procs[nStarts] = "killed"

\* C40: when the persisted flag system_proxy_enabled_by_app is true as the
\* application initializes, the startup recovery eventually runs the system
\* proxy's unconfigure(), after which the flag is false
C40_RecoveryUnconfigures ==
    (call.op = "initialize" /\ call.flag)
        ~> (call.op = "unconfigure" /\ ~settings.system_proxy_enabled_by_app)

============================================================================
